---- MODULE Spec2Model ----
(***************************************************************************)
(* A model of two subsystems of the Bluetooth host stack:                  *)
(*   - AVDTP signaling (stack/avdt/avdt_msg.cc): fragmentation on send,    *)
(*     reassembly on receive, dispatch of complete messages;               *)
(*   - the SMP pairing engine (stack/smp/smp_act.cc): the action functions *)
(*     of the pairing state machine.                                       *)
(* Lengths are scaled down (MTU, buffer sizes); byte values, header        *)
(* layouts and the control flow of each function follow the source.        *)
(***************************************************************************)
EXTENDS Integers, Sequences, FiniteSets, TLC

VARIABLES
  ccb,       \* the local AvdtpCcb (sender in SpecSend, receiver in SpecRx)
  peer_ccb,  \* the peer's AvdtpCcb: the receiving end of the signaling channel
  wire,      \* packets handed to avdt_ad_write_req and not yet delivered
  orig,      \* the message last passed to avdt_msg_send (NULL before the first)
  rxd,       \* messages avdt_msg_asmbl has returned on the peer for orig
  ind,       \* what the last avdt_msg_ind call returned, queued and raised (SpecRx)
  run,       \* where the inbound packet sequence stands in SINGLE | START CONT* END
  prs,       \* the bytes last built or received for a parser and what it returned
  xmit,      \* the packets written for orig since avdt_msg_send took it
  smp,       \* the SMP engine: smp_cb, the calls still to run, what it has sent
  avct       \* avct_cb: the AVCTP connections and links, and the last API call

avdtVars == <<ccb, peer_ccb, wire, orig, rxd, ind, run, prs, xmit>>

vars == <<avdtVars, smp, avct>>

(***************************************************************************)
(* Bounds of the model.                                                    *)
(***************************************************************************)
MinPeerMtu == 4      \* smallest peer MTU explored (L2CAP's real minimum is 48)
MaxPeerMtu == 6      \* largest peer MTU explored
MaxBodyLen == 7      \* longest message body handed to avdt_msg_send
MaxCfgLen == 8       \* most bytes of service capabilities a peer sends
AVCT_NUM_CONN == 3   \* AVCTP connection control blocks, scaled down
AVCT_NUM_LINKS == 2  \* AVCTP link control blocks, scaled down
RxOffset == 2        \* offset of the payload in a buffer received from L2CAP
RxBufSize == 19      \* BT_DEFAULT_BUFFER_SIZE, scaled down

(***************************************************************************)
(* Program constants.                                                      *)
(***************************************************************************)
BT_HDR_SIZE == 8             \* sizeof(BT_HDR)
AVDT_MSG_OFFSET == 3         \* offset of the body in a message being built
AVDT_LEN_TYPE_SINGLE == 2
AVDT_LEN_TYPE_START == 3
AVDT_LEN_TYPE_CONT == 1
AVDT_LEN_TYPE_END == 1
AVDT_PKT_TYPE_SINGLE == 0
AVDT_PKT_TYPE_START == 1
AVDT_PKT_TYPE_CONT == 2
AVDT_PKT_TYPE_END == 3
AVDT_MSG_TYPE_CMD == 0
AVDT_MSG_TYPE_GRJ == 1
AVDT_MSG_TYPE_RSP == 2
AVDT_MSG_TYPE_REJ == 3
AVDT_SIG_DISCOVER == 1
AVDT_SIG_GETCAP == 2
AVDT_SIG_SETCONFIG == 3
AVDT_SIG_GETCONFIG == 4
AVDT_SIG_RECONFIG == 5
AVDT_SIG_OPEN == 6
AVDT_SIG_START == 7
AVDT_SIG_CLOSE == 8
AVDT_SIG_SUSPEND == 9
AVDT_SIG_ABORT == 10
AVDT_SIG_SECURITY == 11
AVDT_SIG_GET_ALLCAP == 12
AVDT_SIG_DELAY_RPT == 13

NULL == [null |-> TRUE]

Min(a, b) == IF a < b THEN a ELSE b
Max(a, b) == IF a > b THEN a ELSE b

\* n zero bytes: the part of a buffer below its offset
Zeros(n) == [i \in 1..n |-> 0]

\* data with bytes written at byte position pos (0-based), as memcpy does
WriteAt(data, pos, bytes) ==
  [i \in 1..Max(Len(data), pos + Len(bytes)) |->
     IF i > pos /\ i <= pos + Len(bytes) THEN bytes[i - pos]
     ELSE IF i <= Len(data) THEN data[i] ELSE 0]

\* the len bytes of a BT_HDR's payload that start at its offset
Bytes(buf) == SubSeq(buf.data, buf.offset + 1, buf.offset + buf.len)

(***************************************************************************)
(* Header macros of the signaling PDU: label in the high 4 bits, packet    *)
(* type in bits 3..2, message type in bits 1..0; signal in the low 6 bits  *)
(* of the signal byte.                                                     *)
(***************************************************************************)
AVDT_MSG_BLD_HDR(lbl, pkt, msg) == ((lbl * 16) % 256) + (pkt * 4) + msg
AVDT_MSG_PRS_LABEL(b) == (b \div 16) % 16
AVDT_MSG_PRS_PKT_TYPE(b) == (b \div 4) % 4
AVDT_MSG_PRS_MSG_TYPE(b) == b % 4
AVDT_MSG_PRS_SIG(b) == b % 64

\* table of packet type minimum lengths
avdt_msg_pkt_type_len(pkt_type) ==
  CASE pkt_type = AVDT_PKT_TYPE_SINGLE -> AVDT_LEN_TYPE_SINGLE
    [] pkt_type = AVDT_PKT_TYPE_START -> AVDT_LEN_TYPE_START
    [] pkt_type = AVDT_PKT_TYPE_CONT -> AVDT_LEN_TYPE_CONT
    [] OTHER -> AVDT_LEN_TYPE_END

L2CAP_MIN_OFFSET == 13

\* a pass that counts the packets as the bytes of the message and one more,
\* over the bytes a packet carries after its first byte, rounded up, plus one
avdt_msg_send_pass_nosp_rounded_up(c, curr_msg_len) ==
  LET m == c.p_curr_msg
      mtu == c.peer_mtu
      pkt_type ==
        IF m.offset = AVDT_MSG_OFFSET /\ m.len <= mtu - AVDT_LEN_TYPE_SINGLE
          THEN AVDT_PKT_TYPE_SINGLE
        ELSE IF m.offset = AVDT_MSG_OFFSET /\ m.len > mtu - AVDT_LEN_TYPE_SINGLE
          THEN AVDT_PKT_TYPE_START
        ELSE IF m.offset > AVDT_MSG_OFFSET /\ m.len > mtu - AVDT_LEN_TYPE_CONT
          THEN AVDT_PKT_TYPE_CONT
        ELSE AVDT_PKT_TYPE_END
      hdr_len == avdt_msg_pkt_type_len(pkt_type)
      nosp == ((m.len + 1 + (mtu - 2)) \div (mtu - 1) + 1) % 256
      fresh == pkt_type \in {AVDT_PKT_TYPE_START, AVDT_PKT_TYPE_CONT}
      \* p_buf before the header is built
      p_buf0 ==
        IF fresh
          THEN [offset |-> L2CAP_MIN_OFFSET + hdr_len,
                len |-> mtu - hdr_len,
                data |-> Zeros(L2CAP_MIN_OFFSET + hdr_len)
                           \o SubSeq(m.data, m.offset + 1, m.offset + (mtu - hdr_len))]
          ELSE [offset |-> m.offset, len |-> m.len, data |-> m.data]
      label == m.layer_specific.label
      msg == m.layer_specific.msg
      sig == m.event % 256
      left == (curr_msg_len - p_buf0.len) % 65536
      done == left = 0
      cmd_done == done /\ msg = AVDT_MSG_TYPE_CMD
      use_rsp == sig \in {AVDT_SIG_DISCOVER, AVDT_SIG_GETCAP, AVDT_SIG_SECURITY}
                   \/ c.ret_tout = 0
      use_ret == ~use_rsp /\ sig # AVDT_SIG_DELAY_RPT
      hdr == <<AVDT_MSG_BLD_HDR(label, pkt_type, msg)>>
               \o (IF pkt_type = AVDT_PKT_TYPE_START THEN <<nosp>> ELSE <<>>)
               \o (IF pkt_type \in {AVDT_PKT_TYPE_START, AVDT_PKT_TYPE_SINGLE}
                     THEN <<sig>> ELSE <<>>)
      p_buf == [offset |-> p_buf0.offset - hdr_len,
                len |-> p_buf0.len + hdr_len,
                data |-> WriteAt(p_buf0.data, p_buf0.offset - hdr_len, hdr)]
      c1 == [c EXCEPT
               !.p_curr_msg =
                 IF done THEN NULL
                 ELSE [m EXCEPT !.len = (m.len - p_buf0.len) % 65536,
                                !.offset = m.offset + p_buf0.len],
               !.idle_ccb_timer =
                 IF cmd_done /\ (use_rsp \/ use_ret) THEN FALSE ELSE @,
               !.ret_ccb_timer =
                 IF cmd_done /\ use_rsp THEN FALSE
                 ELSE IF cmd_done /\ use_ret THEN TRUE ELSE @,
               !.rsp_ccb_timer =
                 IF cmd_done /\ use_rsp THEN TRUE
                 ELSE IF cmd_done /\ use_ret THEN FALSE ELSE @]
  IN [ccb |-> c1, curr_msg_len |-> left, pkt |-> Bytes(p_buf), pkt_type |-> pkt_type]

\* a pass that takes as SINGLE every message of at most peer_mtu bytes, its
\* header not counted
avdt_msg_send_pass_header_not_counted(c, curr_msg_len) ==
  LET m == c.p_curr_msg
      mtu == c.peer_mtu
      pkt_type ==
        IF m.offset = AVDT_MSG_OFFSET /\ m.len <= mtu
          THEN AVDT_PKT_TYPE_SINGLE
        ELSE IF m.offset = AVDT_MSG_OFFSET /\ m.len > mtu
          THEN AVDT_PKT_TYPE_START
        ELSE IF m.offset > AVDT_MSG_OFFSET /\ m.len > mtu - AVDT_LEN_TYPE_CONT
          THEN AVDT_PKT_TYPE_CONT
        ELSE AVDT_PKT_TYPE_END
      hdr_len == avdt_msg_pkt_type_len(pkt_type)
      nosp == ((m.len + AVDT_LEN_TYPE_START - mtu) \div (mtu - 1) + 2) % 256
      fresh == pkt_type \in {AVDT_PKT_TYPE_START, AVDT_PKT_TYPE_CONT}
      \* p_buf before the header is built
      p_buf0 ==
        IF fresh
          THEN [offset |-> L2CAP_MIN_OFFSET + hdr_len,
                len |-> mtu - hdr_len,
                data |-> Zeros(L2CAP_MIN_OFFSET + hdr_len)
                           \o SubSeq(m.data, m.offset + 1, m.offset + (mtu - hdr_len))]
          ELSE [offset |-> m.offset, len |-> m.len, data |-> m.data]
      label == m.layer_specific.label
      msg == m.layer_specific.msg
      sig == m.event % 256
      left == (curr_msg_len - p_buf0.len) % 65536
      done == left = 0
      cmd_done == done /\ msg = AVDT_MSG_TYPE_CMD
      use_rsp == sig \in {AVDT_SIG_DISCOVER, AVDT_SIG_GETCAP, AVDT_SIG_SECURITY}
                   \/ c.ret_tout = 0
      use_ret == ~use_rsp /\ sig # AVDT_SIG_DELAY_RPT
      hdr == <<AVDT_MSG_BLD_HDR(label, pkt_type, msg)>>
               \o (IF pkt_type = AVDT_PKT_TYPE_START THEN <<nosp>> ELSE <<>>)
               \o (IF pkt_type \in {AVDT_PKT_TYPE_START, AVDT_PKT_TYPE_SINGLE}
                     THEN <<sig>> ELSE <<>>)
      p_buf == [offset |-> p_buf0.offset - hdr_len,
                len |-> p_buf0.len + hdr_len,
                data |-> WriteAt(p_buf0.data, p_buf0.offset - hdr_len, hdr)]
      c1 == [c EXCEPT
               !.p_curr_msg =
                 IF done THEN NULL
                 ELSE [m EXCEPT !.len = (m.len - p_buf0.len) % 65536,
                                !.offset = m.offset + p_buf0.len],
               !.idle_ccb_timer =
                 IF cmd_done /\ (use_rsp \/ use_ret) THEN FALSE ELSE @,
               !.ret_ccb_timer =
                 IF cmd_done /\ use_rsp THEN FALSE
                 ELSE IF cmd_done /\ use_ret THEN TRUE ELSE @,
               !.rsp_ccb_timer =
                 IF cmd_done /\ use_rsp THEN TRUE
                 ELSE IF cmd_done /\ use_ret THEN FALSE ELSE @]
  IN [ccb |-> c1, curr_msg_len |-> left, pkt |-> Bytes(p_buf), pkt_type |-> pkt_type]

(***************************************************************************)
(* avdt_msg_send: one pass of the loop body.  c.p_curr_msg is not NULL.    *)
(* Returns the CCB after the pass, the local curr_msg_len and the bytes    *)
(* handed to avdt_ad_write_req.                                            *)
(***************************************************************************)
avdt_msg_send_pass(c, curr_msg_len) ==
  LET m == c.p_curr_msg
      mtu == c.peer_mtu
      pkt_type ==
        IF m.offset = AVDT_MSG_OFFSET /\ m.len <= mtu - AVDT_LEN_TYPE_SINGLE
          THEN AVDT_PKT_TYPE_SINGLE
        ELSE IF m.offset = AVDT_MSG_OFFSET /\ m.len > mtu - AVDT_LEN_TYPE_SINGLE
          THEN AVDT_PKT_TYPE_START
        ELSE IF m.offset > AVDT_MSG_OFFSET /\ m.len > mtu - AVDT_LEN_TYPE_CONT
          THEN AVDT_PKT_TYPE_CONT
        ELSE AVDT_PKT_TYPE_END
      hdr_len == avdt_msg_pkt_type_len(pkt_type)
      nosp == ((m.len + AVDT_LEN_TYPE_START - mtu) \div (mtu - 1) + 2) % 256
      fresh == pkt_type \in {AVDT_PKT_TYPE_START, AVDT_PKT_TYPE_CONT}
      \* p_buf before the header is built
      p_buf0 ==
        IF fresh
          THEN [offset |-> L2CAP_MIN_OFFSET + hdr_len,
                len |-> mtu - hdr_len,
                data |-> Zeros(L2CAP_MIN_OFFSET + hdr_len)
                           \o SubSeq(m.data, m.offset + 1, m.offset + (mtu - hdr_len))]
          ELSE [offset |-> m.offset, len |-> m.len, data |-> m.data]
      label == m.layer_specific.label
      msg == m.layer_specific.msg
      sig == m.event % 256
      left == (curr_msg_len - p_buf0.len) % 65536
      done == left = 0
      cmd_done == done /\ msg = AVDT_MSG_TYPE_CMD
      use_rsp == sig \in {AVDT_SIG_DISCOVER, AVDT_SIG_GETCAP, AVDT_SIG_SECURITY}
                   \/ c.ret_tout = 0
      use_ret == ~use_rsp /\ sig # AVDT_SIG_DELAY_RPT
      hdr == <<AVDT_MSG_BLD_HDR(label, pkt_type, msg)>>
               \o (IF pkt_type = AVDT_PKT_TYPE_START THEN <<nosp>> ELSE <<>>)
               \o (IF pkt_type \in {AVDT_PKT_TYPE_START, AVDT_PKT_TYPE_SINGLE}
                     THEN <<sig>> ELSE <<>>)
      p_buf == [offset |-> p_buf0.offset - hdr_len,
                len |-> p_buf0.len + hdr_len,
                data |-> WriteAt(p_buf0.data, p_buf0.offset - hdr_len, hdr)]
      c1 == [c EXCEPT
               !.p_curr_msg =
                 IF done THEN NULL
                 ELSE [m EXCEPT !.len = (m.len - p_buf0.len) % 65536,
                                !.offset = m.offset + p_buf0.len],
               !.idle_ccb_timer =
                 IF cmd_done /\ (use_rsp \/ use_ret) THEN FALSE ELSE @,
               !.ret_ccb_timer =
                 IF cmd_done /\ use_rsp THEN FALSE
                 ELSE IF cmd_done /\ use_ret THEN TRUE ELSE @,
               !.rsp_ccb_timer =
                 IF cmd_done /\ use_rsp THEN TRUE
                 ELSE IF cmd_done /\ use_ret THEN FALSE ELSE @]
  IN [ccb |-> c1, curr_msg_len |-> left, pkt |-> Bytes(p_buf), pkt_type |-> pkt_type]

\* a loop that goes on until the message is written, congested or not
RECURSIVE avdt_msg_send_loop_cong_ignored(_, _, _, _)
avdt_msg_send_loop_cong_ignored(c, curr_msg_len, out, cong_after) ==
  IF c.p_curr_msg = NULL
    THEN [ccb |-> c, out |-> out]
    ELSE LET r == avdt_msg_send_pass(c, curr_msg_len)
             c2 == IF cong_after = 1 THEN [r.ccb EXCEPT !.cong = TRUE] ELSE r.ccb
         IN avdt_msg_send_loop_cong_ignored(c2, r.curr_msg_len,
                                            Append(out, r.pkt), cong_after - 1)

(***************************************************************************)
(* avdt_msg_send: the while loop.  cong_after is the number of writes      *)
(* after which the transport reports congestion (0: it does not).          *)
(***************************************************************************)
RECURSIVE avdt_msg_send_loop(_, _, _, _)
avdt_msg_send_loop(c, curr_msg_len, out, cong_after) ==
  IF c.cong \/ c.p_curr_msg = NULL
    THEN [ccb |-> c, out |-> out]
    ELSE LET r == avdt_msg_send_pass(c, curr_msg_len)
             c2 == IF cong_after = 1 THEN [r.ccb EXCEPT !.cong = TRUE] ELSE r.ccb
         IN avdt_msg_send_loop(c2, r.curr_msg_len, Append(out, r.pkt), cong_after - 1)

\* avdt_msg_send(p_ccb, p_msg): p_msg may be NULL (continue the current message)
avdt_msg_send(c, p_msg, cong_after) ==
  LET c1 == IF p_msg # NULL THEN [c EXCEPT !.p_curr_msg = p_msg] ELSE c
  IN avdt_msg_send_loop(c1, c1.p_curr_msg.len, <<>>, cong_after)

\* a START packet copied with the signal byte left where the sender put it
avdt_msg_asmbl_start_nosp_kept(p_buf) ==
  [offset |-> p_buf.offset + p_buf.len,
   len |-> p_buf.len,
   data |-> SubSeq(p_buf.data, 1, p_buf.offset + p_buf.len)]

\* avdt_msg_asmbl, START packet: the new reassembly buffer p_rx_msg
avdt_msg_asmbl_start(p_buf) ==
  [offset |-> p_buf.offset + p_buf.len,
   len |-> p_buf.len - 1,
   data |-> WriteAt(SubSeq(p_buf.data, 1, p_buf.offset + p_buf.len),
                    p_buf.offset + 1, <<p_buf.data[p_buf.offset + 1]>>)]

\* a SINGLE packet returned without a look at the reassembly in progress
avdt_msg_asmbl_single_rx_kept(c, p_buf) == [ccb |-> c, p_ret |-> p_buf]

\* avdt_msg_asmbl, SINGLE packet: a reassembly in progress is freed
avdt_msg_asmbl_single(c, p_buf) ==
  [ccb |-> [c EXCEPT !.p_rx_msg = NULL], p_ret |-> p_buf]

\* a reassembly that copies a CONT or END packet without verifying that it
\* fits the buffer
avdt_msg_asmbl_length_unverified(c, p_buf) ==
  LET p0 == IF p_buf.len >= 1 THEN p_buf.data[p_buf.offset + 1] ELSE 0
      pkt_type == AVDT_MSG_PRS_PKT_TYPE(p0)
      drop == [ccb |-> c, p_ret |-> NULL]
  IN
  IF p_buf.len < 1 THEN drop
  ELSE IF p_buf.len < avdt_msg_pkt_type_len(pkt_type) THEN drop
  ELSE IF pkt_type = AVDT_PKT_TYPE_SINGLE THEN avdt_msg_asmbl_single(c, p_buf)
  ELSE IF pkt_type = AVDT_PKT_TYPE_START THEN
    IF BT_HDR_SIZE + p_buf.offset + p_buf.len > RxBufSize
      THEN [ccb |-> [c EXCEPT !.p_rx_msg = NULL], p_ret |-> NULL]
      ELSE [ccb |-> [c EXCEPT !.p_rx_msg = avdt_msg_asmbl_start(p_buf)],
            p_ret |-> NULL]
  ELSE
    IF c.p_rx_msg = NULL THEN drop
    ELSE LET rx == c.p_rx_msg
             frag == [offset |-> p_buf.offset + AVDT_LEN_TYPE_CONT,
                      len |-> p_buf.len - AVDT_LEN_TYPE_CONT,
                      data |-> p_buf.data]
             copied == WriteAt(rx.data, rx.offset, Bytes(frag))
         IN IF pkt_type = AVDT_PKT_TYPE_END
              THEN [ccb |-> [c EXCEPT !.p_rx_msg = NULL],
                    p_ret |-> [offset |-> rx.offset - rx.len,
                               len |-> rx.len + frag.len,
                               data |-> copied]]
            ELSE [ccb |-> [c EXCEPT !.p_rx_msg =
                                      [offset |-> rx.offset + frag.len,
                                       len |-> rx.len + frag.len,
                                       data |-> copied]],
                  p_ret |-> NULL]

(***************************************************************************)
(* avdt_msg_asmbl(p_ccb, p_buf): returns the CCB and p_ret.                *)
(***************************************************************************)
avdt_msg_asmbl(c, p_buf) ==
  LET p0 == IF p_buf.len >= 1 THEN p_buf.data[p_buf.offset + 1] ELSE 0
      pkt_type == AVDT_MSG_PRS_PKT_TYPE(p0)
      drop == [ccb |-> c, p_ret |-> NULL]
  IN
  IF p_buf.len < 1 THEN drop
  ELSE IF p_buf.len < avdt_msg_pkt_type_len(pkt_type) THEN drop
  ELSE IF pkt_type = AVDT_PKT_TYPE_SINGLE THEN avdt_msg_asmbl_single(c, p_buf)
  ELSE IF pkt_type = AVDT_PKT_TYPE_START THEN
    IF BT_HDR_SIZE + p_buf.offset + p_buf.len > RxBufSize
      THEN [ccb |-> [c EXCEPT !.p_rx_msg = NULL], p_ret |-> NULL]
      ELSE [ccb |-> [c EXCEPT !.p_rx_msg = avdt_msg_asmbl_start(p_buf)],
            p_ret |-> NULL]
  ELSE
    IF c.p_rx_msg = NULL THEN drop
    ELSE LET buf_len == RxBufSize - BT_HDR_SIZE
             rx == c.p_rx_msg
             frag == [offset |-> p_buf.offset + AVDT_LEN_TYPE_CONT,
                      len |-> p_buf.len - AVDT_LEN_TYPE_CONT,
                      data |-> p_buf.data]
             copied == WriteAt(rx.data, rx.offset, Bytes(frag))
         IN IF rx.offset + frag.len > buf_len
              THEN [ccb |-> [c EXCEPT !.p_rx_msg = NULL], p_ret |-> NULL]
            ELSE IF pkt_type = AVDT_PKT_TYPE_END
              THEN [ccb |-> [c EXCEPT !.p_rx_msg = NULL],
                    p_ret |-> [offset |-> rx.offset - rx.len,
                               len |-> rx.len + frag.len,
                               data |-> copied]]
            ELSE [ccb |-> [c EXCEPT !.p_rx_msg =
                                      [offset |-> rx.offset + frag.len,
                                       len |-> rx.len + frag.len,
                                       data |-> copied]],
                  p_ret |-> NULL]

\* a buffer as L2CAP delivers it: the packet's bytes at offset RxOffset
RxBuf(bytes) ==
  [offset |-> RxOffset, len |-> Len(bytes), data |-> Zeros(RxOffset) \o bytes]

(***************************************************************************)
(* SMP pairing engine (stack/smp/smp_act.cc): program constants.           *)
(* States, state-machine events, callback events, flags and association    *)
(* models are strings carrying the source's identifiers; values that the   *)
(* code compares or counts with are numbers.                               *)
(***************************************************************************)
HCI_ROLE_MASTER == 0
HCI_ROLE_SLAVE == 1

SMP_OPCODE_PAIRING_REQ == 1
SMP_OPCODE_PAIRING_RSP == 2
SMP_OPCODE_CONFIRM == 3
SMP_OPCODE_RAND == 4
SMP_OPCODE_INIT == SMP_OPCODE_RAND
SMP_OPCODE_PAIRING_FAILED == 5
SMP_OPCODE_ENCRYPT_INFO == 6
SMP_OPCODE_MASTER_ID == 7
SMP_OPCODE_IDENTITY_INFO == 8
SMP_OPCODE_ID_ADDR == 9
SMP_OPCODE_SIGN_INFO == 10
SMP_OPCODE_SEC_REQ == 11
SMP_OPCODE_PAIR_PUBLIC_KEY == 12
SMP_OPCODE_PAIR_DHKEY_CHECK == 13
SMP_OPCODE_PAIR_KEYPR_NOTIF == 14
SMP_OPCODE_PAIR_COMMITM == 15

SMP_SUCCESS == 0
SMP_PASSKEY_ENTRY_FAIL == 1
SMP_PAIR_AUTH_FAIL == 3
SMP_CONFIRM_VALUE_ERR == 4
SMP_PAIR_NOT_SUPPORT == 5
SMP_PAIR_FAIL_UNKNOWN == 8
SMP_REPEATED_ATTEMPTS == 9
SMP_INVALID_PARAMETERS == 10
SMP_DHKEY_CHK_FAIL == 11
SMP_NUMERIC_COMPAR_FAIL == 12
SMP_XTRANS_DERIVE_NOT_ALLOW == 14
SMP_MAX_FAIL_RSN_PER_SPEC == SMP_XTRANS_DERIVE_NOT_ALLOW
SMP_UNKNOWN_IO_CAP == 16
SMP_ENC_FAIL == 20
SMP_FAIL == 24
SMP_CONN_TOUT == 25

SMP_SEC_KEY_TYPE_ENC == 1
SMP_SEC_KEY_TYPE_ID == 2
SMP_SEC_KEY_TYPE_CSRK == 4
SMP_SEC_KEY_TYPE_LK == 8
SMP_KEY_DIST_TYPE_MAX == 4
\* key masks are sets of key types: x & y is an intersection, x | y a union
SMP_SEC_DEFAULT_KEY ==
  {SMP_SEC_KEY_TYPE_ENC, SMP_SEC_KEY_TYPE_ID, SMP_SEC_KEY_TYPE_CSRK,
   SMP_SEC_KEY_TYPE_LK}
SMP_BR_SEC_DEFAULT_KEY ==
  {SMP_SEC_KEY_TYPE_ENC, SMP_SEC_KEY_TYPE_ID, SMP_SEC_KEY_TYPE_CSRK}

\* the bits of an AuthReq byte, as a set
SMP_AUTH_BOND == "SMP_AUTH_BOND"
SMP_AUTH_YN_BIT == "SMP_AUTH_YN_BIT"
SMP_SC_SUPPORT_BIT == "SMP_SC_SUPPORT_BIT"
SMP_KP_SUPPORT_BIT == "SMP_KP_SUPPORT_BIT"
SMP_H7_SUPPORT_BIT == "SMP_H7_SUPPORT_BIT"

SMP_IO_CAP_OUT == 0
SMP_IO_CAP_IO == 1
SMP_IO_CAP_IN == 2
SMP_IO_CAP_NONE == 3
SMP_IO_CAP_KBDISP == 4
SMP_OOB_NONE == 0
SMP_OOB_PRESENT == 1
SMP_ENCR_KEY_SIZE_MIN == 7
SMP_MAX_ENC_KEY_SIZE == 16
SMP_SEC_NONE == 0
SMP_SEC_UNAUTHENTICATE == 1
SMP_SEC_AUTHENTICATED == 2

\* the length of each PDU, by opcode
smp_cmd_size_per_spec ==
  [op \in 1..15 |->
     CASE op \in {SMP_OPCODE_PAIRING_REQ, SMP_OPCODE_PAIRING_RSP} -> 7
       [] op \in {SMP_OPCODE_PAIRING_FAILED, SMP_OPCODE_SEC_REQ,
                  SMP_OPCODE_PAIR_KEYPR_NOTIF} -> 2
       [] op = SMP_OPCODE_MASTER_ID -> 11
       [] op = SMP_OPCODE_ID_ADDR -> 8
       [] op = SMP_OPCODE_PAIR_PUBLIC_KEY -> 65
       [] OTHER -> 17]

(***************************************************************************)
(* The pairing control block smp_cb as smp_cb_cleanup leaves it: every     *)
(* field zero. A zero cb_evt is "NONE"; pairing_bda is 0 (no peer) or 1;   *)
(* the keys are 0 (zero) or a tag of the value held.                       *)
(***************************************************************************)
SmpZeroCb ==
  [state |-> "SMP_STATE_IDLE", br_state |-> "SMP_BR_STATE_IDLE",
   role |-> HCI_ROLE_MASTER, pairing_bda |-> 0, flags |-> {},
   status |-> SMP_SUCCESS, failure |-> SMP_SUCCESS, cb_evt |-> "NONE",
   rcvd_cmd_code |-> 0, rcvd_cmd_len |-> 0,
   local_io_capability |-> 0, loc_oob_flag |-> 0, loc_auth_req |-> {},
   loc_enc_size |-> 0, local_i_key |-> {}, local_r_key |-> {},
   peer_io_caps |-> 0, peer_oob_flag |-> 0, peer_auth_req |-> {},
   peer_enc_size |-> 0, peer_i_key |-> {}, peer_r_key |-> {},
   rconfirm |-> 0, rrand |-> 0,
   loc_publ_key |-> [x |-> 0, y |-> 0], peer_publ_key |-> [x |-> 0, y |-> 0],
   dhkey |-> [x |-> 0, y |-> 0],
   remote_commitment |-> 0, remote_dhkey_check |-> 0, round |-> 0, cert_failure |-> 0,
   selected_association_model |-> "SMP_MODEL_ENCRYPTION_ONLY",
   le_secure_connections_mode_is_used |-> FALSE,
   secure_connections_only_mode_required |-> FALSE,
   key_derivation_h7_used |-> FALSE,
   sec_level |-> SMP_SEC_NONE, smp_over_br |-> FALSE, derive_lk |-> FALSE, lk_log |-> <<>>,
   discard_sec_req |-> FALSE,
   total_tx_unacked |-> 0, wait_for_authorization_complete |-> FALSE,
   delayed_auth_timer_ent |-> FALSE]

\* p_data of an event raised with no data
NoData == [status |-> SMP_SUCCESS]

\* the engine at rest on a link where the local device has the given role,
\* with BTM in Secure Connections Only mode or not: nothing to run, nothing
\* sent, nothing reported to the application
SmpIdle(role, sc_mode, scope) ==
  [cb |-> SmpZeroCb,
   scope |-> scope,
   enc |-> FALSE,
   rnd |-> {},
   app |-> <<{}, {}>>,
   todo |-> <<>>,
   tx |-> <<>>,
   cmpl |-> <<>>,
   evts |-> <<>>,
   ext |-> "none",
   pairings |-> 0,
   cfm_sent |-> FALSE,
   dist |-> <<>>,
   link_role |-> role,
   security_mode_sc |-> sc_mode]

(***************************************************************************)
(* avct_cb after AVCT_Register: the connection and link control blocks     *)
(* zeroed. ret keeps the last call of the API: its arguments, what it      *)
(* returned, the block avct_ccb_alloc gave it and the events it sent to a  *)
(* link.                                                                   *)
(***************************************************************************)
AVCT_SUCCESS == 0
AVCT_NO_RESOURCES == 1
AVCT_BAD_HANDLE == 2
AVCT_PID_IN_USE == 3
AVCT_INT == 0
AVCT_ACP == 1
\* a pointer to no control block; the blocks are named by their index
AvctNull == 0 - 1
AvctZeroCcb == [allocated |-> FALSE, cc |-> [role |-> 0, pid |-> 0], p_lcb |-> AvctNull]
AvctZeroLcb == [allocated |-> FALSE, peer_addr |-> 0, ch_state |-> "AVCT_CH_IDLE"]
AvctNoCall ==
  [fn |-> "none", result |-> AVCT_SUCCESS, handle |-> AvctNull, p_ccb |-> AvctNull,
   cc |-> AvctZeroCcb.cc, peer_addr |-> 0, evts |-> <<>>]
AvctIdle ==
  [ccb |-> [i \in 0..(AVCT_NUM_CONN - 1) |-> AvctZeroCcb],
   lcb |-> [i \in 0..(AVCT_NUM_LINKS - 1) |-> AvctZeroLcb],
   ret |-> AvctNoCall]

(***************************************************************************)
(* The signaling channel control block after avdt_ccb_alloc and channel    *)
(* open, for a peer MTU and a configured retransmission timeout.           *)
(***************************************************************************)
InitCcb(mtu, ret_tout) ==
  [p_curr_msg |-> NULL, p_rx_msg |-> NULL, p_curr_cmd |-> NULL,
   cong |-> FALSE, peer_mtu |-> mtu, ret_tout |-> ret_tout,
   idle_ccb_timer |-> FALSE, ret_ccb_timer |-> FALSE, rsp_ccb_timer |-> FALSE,
   ret_count |-> 0, p_proc_data |-> NULL, proc_param |-> 0]

\* a message as the builders leave it: body at AVDT_MSG_OFFSET
BuiltMsg(label, msg, sig, body) ==
  [event |-> sig, layer_specific |-> [label |-> label, msg |-> msg],
   offset |-> AVDT_MSG_OFFSET, len |-> Len(body),
   data |-> Zeros(AVDT_MSG_OFFSET) \o body]

\* message bodies explored: n bytes, all different
Body(n) == [i \in 1..n |-> 160 + 7 * i]
SendLabels == {6, 15}
SendSigs == {AVDT_SIG_DISCOVER, AVDT_SIG_SETCONFIG, AVDT_SIG_DELAY_RPT}
SendMsgTypes == {AVDT_MSG_TYPE_CMD, AVDT_MSG_TYPE_REJ}
RetTouts == {0, 3}

\* nothing received yet
NoInd == [ret |-> FALSE, hdr |-> <<>>, rsp_q |-> <<>>, events |-> <<>>]
NoRun == [open |-> FALSE, last |-> 4]
\* nothing written yet: pkts are the packets written for orig, calls the
\* number of calls of avdt_msg_send that wrote them, late tells whether the
\* last call wrote a packet after the transport had reported congestion
NoSent == [pkts |-> <<>>, calls |-> 0, late |-> FALSE]
\* no bytes built or received for a parser yet
NoPrs == [cfg |-> NULL, d |-> <<>>, fn |-> "", sig_id |-> 0, out |-> NULL]

InitSend ==
  /\ ccb \in {InitCcb(mtu, rt) : mtu \in MinPeerMtu..MaxPeerMtu, rt \in RetTouts}
  /\ peer_ccb = InitCcb(MinPeerMtu, 0)
  /\ wire = <<>>
  /\ orig = NULL
  /\ rxd = <<>>
  /\ ind = NoInd
  /\ run = NoRun
  /\ prs = NoPrs
  /\ xmit = NoSent
  /\ smp = SmpIdle(HCI_ROLE_MASTER, FALSE, "model")
  /\ avct = AvctIdle

\* avdt_ccb_snd_msg: with no message in progress, the next queued message
\* goes to avdt_msg_send
SndMsg ==
  /\ ~ccb.cong
  /\ ccb.p_curr_msg = NULL
  /\ wire = <<>>
  /\ \E label \in SendLabels, msg \in SendMsgTypes, sig \in SendSigs,
        n \in 0..MaxBodyLen, cong_after \in 0..2 :
       LET p_msg == BuiltMsg(label, msg, sig, Body(n))
           r == avdt_msg_send(ccb, p_msg, cong_after)
       IN /\ ccb' = r.ccb
          /\ wire' = r.out
          /\ orig' = p_msg
          /\ rxd' = <<>>
          /\ xmit' = [pkts |-> wire', calls |-> 1,
                      late |-> cong_after # 0 /\ Len(wire') > cong_after]
  /\ UNCHANGED <<peer_ccb, ind, run, prs, smp, avct>>

\* the channel leaves congestion: avdt_ccb_snd_msg resumes the message in
\* progress with avdt_msg_send(p_ccb, NULL)
CongClear ==
  /\ ccb.cong
  /\ \E cong_after \in 0..2 :
       LET c == [ccb EXCEPT !.cong = FALSE]
           r == IF c.p_curr_msg # NULL
                  THEN avdt_msg_send(c, NULL, cong_after)
                  ELSE [ccb |-> c, out |-> <<>>]
       IN /\ ccb' = r.ccb
          /\ wire' = wire \o r.out
          /\ LET written == SubSeq(wire', Len(wire) + 1, Len(wire'))
             IN xmit' = [pkts |-> xmit.pkts \o written,
                         calls |-> IF c.p_curr_msg # NULL THEN xmit.calls + 1
                                   ELSE xmit.calls,
                         late |-> \/ c.p_curr_msg = NULL /\ xmit.late
                                  \/ cong_after # 0 /\ Len(written) > cong_after]
  /\ UNCHANGED <<peer_ccb, orig, rxd, ind, run, prs, smp, avct>>

\* the peer receives the next packet: avdt_msg_asmbl
Deliver ==
  /\ wire # <<>>
  /\ LET r == avdt_msg_asmbl(peer_ccb, RxBuf(Head(wire)))
     IN /\ peer_ccb' = r.ccb
        /\ rxd' = IF r.p_ret # NULL THEN Append(rxd, r.p_ret) ELSE rxd
  /\ wire' = Tail(wire)
  /\ UNCHANGED <<ccb, orig, ind, run, prs, xmit, smp, avct>>

NextSend == SndMsg \/ CongClear \/ Deliver

SpecSend == InitSend /\ [][NextSend]_vars

\* every packet of orig has been written and delivered
AllDelivered == orig # NULL /\ ccb.p_curr_msg = NULL /\ wire = <<>>

\* the reassembled message (header byte, signal byte, body) fits the
\* receiver's reassembly buffer
FitsRxBuf(m) ==
  RxOffset + AVDT_LEN_TYPE_START + m.len <= RxBufSize - BT_HDR_SIZE

\* the message a received buffer carries: label, type, signal, body
Carried(buf) ==
  LET b == Bytes(buf)
  IN [label |-> AVDT_MSG_PRS_LABEL(b[1]), msg |-> AVDT_MSG_PRS_MSG_TYPE(b[1]),
      sig |-> AVDT_MSG_PRS_SIG(b[2]), body |-> SubSeq(b, 3, Len(b))]

Sent(m) ==
  [label |-> m.layer_specific.label, msg |-> m.layer_specific.msg,
   sig |-> m.event, body |-> Bytes(m)]

\* C1: a message that fits the reassembly buffer, sent by avdt_msg_send and
\* delivered packet by packet to avdt_msg_asmbl, comes out exactly once,
\* after the last packet, with the label, message type, signal and body it
\* was sent with; nothing comes out before the last packet.
C1_RoundTrip ==
  (orig # NULL /\ FitsRxBuf(orig)) =>
     /\ ~AllDelivered => rxd = <<>>
     /\ AllDelivered => (Len(rxd) = 1 /\ Carried(rxd[1]) = Sent(orig))

\* a message fragmented into START, CONT and END has come out of reassembly
C1_Witness ==
  /\ AllDelivered
  /\ FitsRxBuf(orig)
  /\ orig.len > 2 * ccb.peer_mtu - 4
  /\ Len(rxd) = 1

(***************************************************************************)
(* Message parsing.                                                        *)
(***************************************************************************)
AVDT_SIG_NONE == 0
AVDT_SIG_MAX == 13           \* the last entry of the 13-entry signal tables
AVDT_LEN_GEN_REJ == 2
AVDT_LEN_SINGLE == 1
AVDT_LEN_SETCONFIG_MIN == 2
AVDT_LEN_RECONFIG_MIN == 1
AVDT_LEN_MULTI_MIN == 1
AVDT_LEN_SECURITY_MIN == 1
AVDT_LEN_DELAY_RPT == 3
AVDT_LEN_CFG_MIN == 2
AVDT_SEID_MIN == 1
AVDT_SEID_MAX == 62
AVDT_NUM_SEPS == 2           \* size of the stream table, scaled down
AVDT_CODEC_SIZE == 4         \* size of codec_info, scaled down
AVDT_PROTECT_SIZE == 6       \* size of protect_info, scaled down

AVDT_CAT_TRANS == 1
AVDT_CAT_REPORT == 2
AVDT_CAT_RECOV == 3
AVDT_CAT_PROTECT == 4
AVDT_CAT_HDRCMP == 5
AVDT_CAT_MUX == 6
AVDT_CAT_CODEC == 7
AVDT_CAT_DELAY_RPT == 8
AVDT_CAT_MAX_CUR == 8

AVDT_RECOV_RFC2733 == 1
AVDT_RECOV_MRWS_MIN == 1
AVDT_RECOV_MRWS_MAX == 24
AVDT_RECOV_MNMP_MIN == 1
AVDT_RECOV_MNMP_MAX == 24

AVDT_ERR_LENGTH == 17
AVDT_ERR_SEID == 18
AVDT_ERR_CATEGORY == 23
AVDT_ERR_PAYLOAD == 24
AVDT_ERR_NSC == 25
AVDT_ERR_INVALID_CAP == 26
AVDT_ERR_RECOV_TYPE == 34
AVDT_ERR_MEDIA_TRANS == 35
AVDT_ERR_RECOV_FMT == 37
AVDT_ERR_ROHC_FMT == 38
AVDT_ERR_CP_FMT == 39
AVDT_ERR_MUX_FMT == 40
AVDT_ERR_BAD_STATE == 49
AVDT_ERR_SERVICE == 128

\* the streams allocated on this device (avdt_scb_by_hdl finds these)
AllocatedScbs == {1}
avdt_scb_by_hdl(hdl) == hdl \in AllocatedScbs

\* tables of information element lengths and errors, by category
avdt_msg_ie_len_min(elem) ==
  CASE elem = AVDT_CAT_RECOV -> 3
    [] elem = AVDT_CAT_PROTECT -> 2
    [] elem = AVDT_CAT_HDRCMP -> 1
    [] elem = AVDT_CAT_MUX -> 3
    [] elem = AVDT_CAT_CODEC -> 2
    [] OTHER -> 0
avdt_msg_ie_len_max(elem) ==
  CASE elem = AVDT_CAT_RECOV -> 3
    [] elem = AVDT_CAT_PROTECT -> 255
    [] elem = AVDT_CAT_HDRCMP -> 1
    [] elem = AVDT_CAT_MUX -> 7
    [] elem = AVDT_CAT_CODEC -> 255
    [] OTHER -> 0
avdt_msg_ie_err(elem) ==
  CASE elem = AVDT_CAT_TRANS -> AVDT_ERR_MEDIA_TRANS
    [] elem = AVDT_CAT_REPORT -> AVDT_ERR_LENGTH
    [] elem = AVDT_CAT_RECOV -> AVDT_ERR_RECOV_FMT
    [] elem = AVDT_CAT_PROTECT -> AVDT_ERR_CP_FMT
    [] elem = AVDT_CAT_HDRCMP -> AVDT_ERR_ROHC_FMT
    [] elem = AVDT_CAT_MUX -> AVDT_ERR_MUX_FMT
    [] elem = AVDT_CAT_CODEC -> AVDT_ERR_SERVICE
    [] elem = AVDT_CAT_DELAY_RPT -> AVDT_ERR_SERVICE
    [] OTHER -> 0

\* masks of service categories, as sets of category numbers (bit positions)
AVDT_PSC == {AVDT_CAT_TRANS, AVDT_CAT_REPORT, AVDT_CAT_DELAY_RPT}
AVDT_LEG_PSC == {AVDT_CAT_TRANS, AVDT_CAT_REPORT, AVDT_CAT_RECOV,
                 AVDT_CAT_HDRCMP, AVDT_CAT_MUX}
AVDT_MSG_PSC_MASK == {AVDT_CAT_TRANS, AVDT_CAT_REPORT, AVDT_CAT_DELAY_RPT,
                      AVDT_CAT_RECOV, AVDT_CAT_HDRCMP, AVDT_CAT_MUX}

\* AvdtpSepConfig cfg{}
EmptyCfg ==
  [psc_mask |-> {}, num_codec |-> 0, num_protect |-> 0,
   codec_info |-> <<>>, protect_info |-> <<>>,
   recov_type |-> 0, recov_mrws |-> 0, recov_mnmp |-> 0, hdrcmp_mask |-> 0]

\* tAVDT_MSG msg{}
EmptyMsg ==
  [label |-> 0, sig_id |-> 0, seid |-> 0, err_code |-> 0, err_param |-> 0,
   int_seid |-> 0, p_cfg |-> NULL, seid_list |-> <<>>, num_seps |-> 0,
   p_sep_info |-> <<>>, p_data |-> <<>>, delay |-> 0]

AVDT_MSG_PRS_SEID(b) == b \div 4

\* byte i (0-based) of d, 0 beyond its end
ByteAt(d, i) == IF i < Len(d) THEN d[i + 1] ELSE 0

\* the result r of a parser that has read the bytes of its input below
\* position n (0-based): rd is the end of the bytes read
Read(r, n) == [r EXCEPT !.rd = Max(@, n)]

(***************************************************************************)
(* avdt_msg_prs_cfg: the loop over information elements.  d holds the      *)
(* len bytes to parse, p is the read position (0-based), po the            *)
(* protect_offset.  Returns err, the element reached and the config.       *)
(***************************************************************************)
RECURSIVE avdt_msg_prs_cfg_loop(_, _, _, _, _, _)
avdt_msg_prs_cfg_loop(cfg, d, p, elem0, po, sig_id) ==
  LET p_end == Len(d)
      out(err, elem, c) == [err |-> err, elem |-> elem, cfg |-> c, rd |-> 0]
  IN
  IF ~(p < p_end) THEN out(0, elem0, cfg)
  ELSE IF p_end - p < AVDT_LEN_CFG_MIN THEN out(AVDT_ERR_PAYLOAD, elem0, cfg)
  ELSE
    LET elem == ByteAt(d, p)
        elem_len == ByteAt(d, p + 1)
        q == p + 2
        cfg1 == [cfg EXCEPT !.psc_mask = @ \cup {elem}]
    IN
    IF elem = 0 \/ elem > AVDT_CAT_MAX_CUR THEN
      IF sig_id = AVDT_SIG_SETCONFIG \/ sig_id = AVDT_SIG_RECONFIG
        THEN Read(out(AVDT_ERR_CATEGORY, elem, cfg), q)
        ELSE Read(avdt_msg_prs_cfg_loop(cfg, d, q + elem_len, elem, po, sig_id), q)
    ELSE IF elem_len > avdt_msg_ie_len_max(elem) \/ elem_len < avdt_msg_ie_len_min(elem)
      THEN Read(out(avdt_msg_ie_err(elem), elem, cfg), q)
    ELSE IF elem = AVDT_CAT_RECOV THEN
      IF p_end - q < 3 THEN Read(out(AVDT_ERR_PAYLOAD, elem, cfg1), q)
      ELSE LET c == [cfg1 EXCEPT !.recov_type = ByteAt(d, q),
                                 !.recov_mrws = ByteAt(d, q + 1),
                                 !.recov_mnmp = ByteAt(d, q + 2)]
           IN IF c.recov_type # AVDT_RECOV_RFC2733
                THEN Read(out(AVDT_ERR_RECOV_TYPE, elem, c), q + 3)
              ELSE IF c.recov_mrws < AVDT_RECOV_MRWS_MIN
                      \/ c.recov_mrws > AVDT_RECOV_MRWS_MAX
                      \/ c.recov_mnmp < AVDT_RECOV_MNMP_MIN
                      \/ c.recov_mnmp > AVDT_RECOV_MNMP_MAX
                THEN Read(out(AVDT_ERR_RECOV_FMT, elem, c), q + 3)
              ELSE Read(avdt_msg_prs_cfg_loop(c, d, q + 3, elem, po, sig_id), q + 3)
    ELSE IF elem = AVDT_CAT_PROTECT THEN
      LET c0 == [cfg1 EXCEPT !.psc_mask = @ \ {AVDT_CAT_PROTECT}]
      IN IF q + elem_len > p_end THEN Read(out(AVDT_ERR_LENGTH, elem, c0), q)
         ELSE IF elem_len + po < AVDT_PROTECT_SIZE
           THEN Read(avdt_msg_prs_cfg_loop(
                       [c0 EXCEPT !.num_protect = (@ + 1) % 256,
                                  !.protect_info =
                                    WriteAt(@, po, <<elem_len>>
                                                   \o SubSeq(d, q + 1, q + elem_len))],
                       d, q + elem_len, elem, po + 1 + elem_len, sig_id),
                     q + elem_len)
           ELSE Read(avdt_msg_prs_cfg_loop(c0, d, q + elem_len, elem, po, sig_id), q)
    ELSE IF elem = AVDT_CAT_HDRCMP THEN
      IF p_end - q < 1 THEN Read(out(AVDT_ERR_PAYLOAD, elem, cfg1), q)
      ELSE Read(avdt_msg_prs_cfg_loop([cfg1 EXCEPT !.hdrcmp_mask = ByteAt(d, q)],
                                      d, q + 1, elem, po, sig_id),
                q + 1)
    ELSE IF elem = AVDT_CAT_CODEC THEN
      LET c0 == [cfg1 EXCEPT !.psc_mask = @ \ {AVDT_CAT_CODEC}]
          tmp == IF elem_len >= AVDT_CODEC_SIZE THEN AVDT_CODEC_SIZE - 1 ELSE elem_len
      IN IF q + tmp > p_end THEN Read(out(AVDT_ERR_LENGTH, elem, c0), q)
         ELSE Read(avdt_msg_prs_cfg_loop(
                     [c0 EXCEPT !.num_codec = (@ + 1) % 256,
                                !.codec_info = <<elem_len>> \o SubSeq(d, q + 1, q + tmp)],
                     d, q + elem_len, elem, po, sig_id),
                   q + tmp)
    ELSE IF elem = AVDT_CAT_DELAY_RPT THEN
      Read(avdt_msg_prs_cfg_loop(cfg1, d, q, elem, po, sig_id), q)
    ELSE Read(avdt_msg_prs_cfg_loop(cfg1, d, q + elem_len, elem, po, sig_id), q)

\* a parser that takes every message for a Set-Configuration command
avdt_msg_prs_cfg_as_setconfig(p_cfg, d, sig_id) ==
  IF p_cfg = NULL
    THEN [err |-> AVDT_ERR_BAD_STATE, elem |-> 0, cfg |-> NULL, rd |-> 0]
    ELSE avdt_msg_prs_cfg_loop(
           [p_cfg EXCEPT !.psc_mask = {}, !.num_codec = 0, !.num_protect = 0],
           d, 0, 0, 0, AVDT_SIG_SETCONFIG)

\* avdt_msg_prs_cfg(p_cfg, p, len, p_elem, sig_id); p_cfg may be NULL
avdt_msg_prs_cfg(p_cfg, d, sig_id) ==
  IF p_cfg = NULL
    THEN [err |-> AVDT_ERR_BAD_STATE, elem |-> 0, cfg |-> NULL, rd |-> 0]
    ELSE avdt_msg_prs_cfg_loop(
           [p_cfg EXCEPT !.psc_mask = {}, !.num_codec = 0, !.num_protect = 0],
           d, 0, 0, 0, sig_id)

\* the parsing functions return the error code and the message they filled
PrsOut(err, msg) == [err |-> err, msg |-> msg, rd |-> 0]

avdt_msg_prs_none(msg, d) == PrsOut(0, msg)

avdt_msg_prs_single(msg, d) ==
  IF Len(d) # AVDT_LEN_SINGLE THEN PrsOut(AVDT_ERR_LENGTH, msg)
  ELSE LET seid == AVDT_MSG_PRS_SEID(ByteAt(d, 0))
           m == [msg EXCEPT !.seid = seid]
       IN Read(IF ~avdt_scb_by_hdl(seid) THEN PrsOut(AVDT_ERR_SEID, m) ELSE PrsOut(0, m),
               1)

\* a Set-Configuration parser that does not ask for a codec
avdt_msg_prs_setconfig_cmd_any_codec(msg, d) ==
  LET m0 == [msg EXCEPT !.err_param = 0]
  IN IF Len(d) < AVDT_LEN_SETCONFIG_MIN THEN PrsOut(AVDT_ERR_LENGTH, m0)
     ELSE LET seid == AVDT_MSG_PRS_SEID(ByteAt(d, 0))
              int_seid == AVDT_MSG_PRS_SEID(ByteAt(d, 1))
              m1 == [m0 EXCEPT !.seid = seid, !.int_seid = int_seid]
              r == avdt_msg_prs_cfg(m1.p_cfg, SubSeq(d, 3, Len(d)), AVDT_SIG_SETCONFIG)
              m2 == [m1 EXCEPT !.p_cfg = r.cfg,
                               !.err_param = IF m1.p_cfg = NULL THEN @ ELSE r.elem]
          IN IF ~avdt_scb_by_hdl(seid) \/ int_seid < AVDT_SEID_MIN
                \/ int_seid > AVDT_SEID_MAX
               THEN Read(PrsOut(AVDT_ERR_SEID, m1), 2)
             ELSE IF r.err # 0 THEN Read(PrsOut(r.err, m2), 2 + r.rd)
             ELSE IF (r.cfg.psc_mask \ AVDT_PSC) # {}
               THEN Read(PrsOut(AVDT_ERR_INVALID_CAP, m2), 2 + r.rd)
             ELSE Read(PrsOut(0, m2), 2 + r.rd)

avdt_msg_prs_setconfig_cmd(msg, d) ==
  LET m0 == [msg EXCEPT !.err_param = 0]
  IN IF Len(d) < AVDT_LEN_SETCONFIG_MIN THEN PrsOut(AVDT_ERR_LENGTH, m0)
     ELSE LET seid == AVDT_MSG_PRS_SEID(ByteAt(d, 0))
              int_seid == AVDT_MSG_PRS_SEID(ByteAt(d, 1))
              m1 == [m0 EXCEPT !.seid = seid, !.int_seid = int_seid]
              err1 == IF ~avdt_scb_by_hdl(seid) \/ int_seid < AVDT_SEID_MIN
                         \/ int_seid > AVDT_SEID_MAX
                        THEN AVDT_ERR_SEID ELSE 0
              r == avdt_msg_prs_cfg(m1.p_cfg, SubSeq(d, 3, Len(d)), AVDT_SIG_SETCONFIG)
              m2 == [m1 EXCEPT !.p_cfg = r.cfg,
                               !.err_param = IF m1.p_cfg = NULL THEN @ ELSE r.elem]
          IN IF err1 # 0 THEN Read(PrsOut(err1, m1), 2)
             ELSE IF r.err # 0 THEN Read(PrsOut(r.err, m2), 2 + r.rd)
             ELSE IF (r.cfg.psc_mask \ AVDT_PSC) # {} \/ r.cfg.num_codec = 0
               THEN Read(PrsOut(AVDT_ERR_INVALID_CAP, m2), 2 + r.rd)
             ELSE Read(PrsOut(0, m2), 2 + r.rd)

avdt_msg_prs_reconfig_cmd(msg, d) ==
  LET m0 == [msg EXCEPT !.err_param = 0]
  IN IF Len(d) < AVDT_LEN_RECONFIG_MIN THEN PrsOut(AVDT_ERR_LENGTH, m0)
     ELSE LET seid == AVDT_MSG_PRS_SEID(ByteAt(d, 0))
              m1 == [m0 EXCEPT !.seid = seid]
              r == avdt_msg_prs_cfg(m1.p_cfg, SubSeq(d, 2, Len(d)), AVDT_SIG_RECONFIG)
              m2 == [m1 EXCEPT !.p_cfg = r.cfg,
                               !.err_param = IF m1.p_cfg = NULL THEN @ ELSE r.elem]
          IN IF ~avdt_scb_by_hdl(seid) THEN Read(PrsOut(AVDT_ERR_SEID, m1), 1)
             ELSE IF r.err # 0 THEN Read(PrsOut(r.err, m2), 1 + r.rd)
             ELSE IF r.cfg.psc_mask # {}
                     \/ (r.cfg.num_codec = 0 /\ r.cfg.num_protect = 0)
               THEN Read(PrsOut(AVDT_ERR_INVALID_CAP, m2), 1 + r.rd)
             ELSE Read(PrsOut(0, m2), 1 + r.rd)

avdt_msg_prs_multi(msg, d) ==
  LET m0 == [msg EXCEPT !.err_param = 0]
      len == Len(d)
      seids == [i \in 1..len |-> AVDT_MSG_PRS_SEID(ByteAt(d, i - 1))]
      bad == {i \in 1..len : ~avdt_scb_by_hdl(seids[i])}
      first == CHOOSE i \in bad : \A j \in bad : i <= j
  IN IF len < AVDT_LEN_MULTI_MIN \/ len > AVDT_NUM_SEPS
       THEN PrsOut(AVDT_ERR_LENGTH, m0)
     ELSE IF bad # {}
       THEN Read(PrsOut(AVDT_ERR_SEID,
                        [m0 EXCEPT !.seid_list = SubSeq(seids, 1, first),
                                   !.err_param = seids[first],
                                   !.num_seps = first - 1]),
                 first)
     ELSE Read(PrsOut(0, [m0 EXCEPT !.seid_list = seids, !.num_seps = len]), len)

avdt_msg_prs_security_cmd(msg, d) ==
  IF Len(d) < AVDT_LEN_SECURITY_MIN THEN PrsOut(AVDT_ERR_LENGTH, msg)
  ELSE LET seid == AVDT_MSG_PRS_SEID(ByteAt(d, 0))
           m == [msg EXCEPT !.seid = seid]
       IN Read(IF ~avdt_scb_by_hdl(seid) THEN PrsOut(AVDT_ERR_SEID, m)
               ELSE PrsOut(0, [m EXCEPT !.p_data = SubSeq(d, 2, Len(d))]),
               1)

\* one entry of a discover response: seid, in_use, media_type, tsep
AVDT_MSG_PRS_DISC(b1, b2) ==
  [seid |-> b1 \div 4, in_use |-> (b1 \div 2) % 2,
   media_type |-> b2 \div 16, tsep |-> (b2 \div 8) % 2]

avdt_msg_prs_discover_rsp(msg, d) ==
  LET n == IF msg.num_seps > Len(d) \div 2 THEN Len(d) \div 2 ELSE msg.num_seps
      info == [i \in 1..n |-> AVDT_MSG_PRS_DISC(ByteAt(d, 2 * i - 2), ByteAt(d, 2 * i - 1))]
      bad == {i \in 1..n : info[i].seid < AVDT_SEID_MIN \/ info[i].seid > AVDT_SEID_MAX}
      first == CHOOSE i \in bad : \A j \in bad : i <= j
  IN IF bad # {}
       THEN Read(PrsOut(AVDT_ERR_SEID,
                        [msg EXCEPT !.num_seps = n, !.p_sep_info = SubSeq(info, 1, first)]),
                 2 * first)
       ELSE Read(PrsOut(0, [msg EXCEPT !.num_seps = n, !.p_sep_info = info]), 2 * n)

avdt_msg_prs_svccap(msg, d) ==
  LET r == avdt_msg_prs_cfg(msg.p_cfg, d, AVDT_SIG_GETCAP)
  IN IF msg.p_cfg = NULL THEN PrsOut(r.err, msg)
     ELSE Read(PrsOut(r.err,
                      [msg EXCEPT !.err_param = r.elem,
                                  !.p_cfg = [r.cfg EXCEPT !.psc_mask = @ \cap AVDT_LEG_PSC]]),
               r.rd)

avdt_msg_prs_all_svccap(msg, d) ==
  LET r == avdt_msg_prs_cfg(msg.p_cfg, d, AVDT_SIG_GET_ALLCAP)
  IN IF msg.p_cfg = NULL THEN PrsOut(r.err, msg)
     ELSE Read(PrsOut(r.err,
                      [msg EXCEPT !.err_param = r.elem,
                                  !.p_cfg = [r.cfg EXCEPT !.psc_mask = @ \cap AVDT_MSG_PSC_MASK]]),
               r.rd)

avdt_msg_prs_security_rsp(msg, d) == PrsOut(0, [msg EXCEPT !.p_data = d])

\* a reject parser that takes the error code without asking for its byte
avdt_msg_prs_rej_no_length(msg, d, sig) ==
  LET param == Len(d) > 0 /\ sig \in {AVDT_SIG_SETCONFIG, AVDT_SIG_RECONFIG,
                                       AVDT_SIG_START, AVDT_SIG_SUSPEND}
      m1 == IF ~param THEN msg
            ELSE IF sig \in {AVDT_SIG_SETCONFIG, AVDT_SIG_RECONFIG}
              THEN [msg EXCEPT !.err_param = ByteAt(d, 0)]
            ELSE [msg EXCEPT !.err_param = AVDT_MSG_PRS_SEID(ByteAt(d, 0))]
      p == IF param THEN 1 ELSE 0
  IN Read(PrsOut(0, [m1 EXCEPT !.err_code = ByteAt(d, p)]), p + 1)

avdt_msg_prs_rej(msg, d, sig) ==
  LET param == Len(d) > 0 /\ sig \in {AVDT_SIG_SETCONFIG, AVDT_SIG_RECONFIG,
                                       AVDT_SIG_START, AVDT_SIG_SUSPEND}
      m1 == IF ~param THEN msg
            ELSE IF sig \in {AVDT_SIG_SETCONFIG, AVDT_SIG_RECONFIG}
              THEN [msg EXCEPT !.err_param = ByteAt(d, 0)]
            ELSE [msg EXCEPT !.err_param = AVDT_MSG_PRS_SEID(ByteAt(d, 0))]
      p == IF param THEN 1 ELSE 0
  IN IF Len(d) - p < 1 THEN Read(PrsOut(AVDT_ERR_LENGTH, m1), p)
     ELSE Read(PrsOut(0, [m1 EXCEPT !.err_code = ByteAt(d, p)]), p + 1)

avdt_msg_prs_delay_rpt(msg, d) ==
  IF Len(d) # AVDT_LEN_DELAY_RPT THEN PrsOut(AVDT_ERR_LENGTH, msg)
  ELSE LET seid == AVDT_MSG_PRS_SEID(ByteAt(d, 0))
           m == [msg EXCEPT !.seid = seid]
       IN IF ~avdt_scb_by_hdl(seid) THEN Read(PrsOut(AVDT_ERR_SEID, m), 1)
          ELSE Read(PrsOut(0, [m EXCEPT !.delay = ByteAt(d, 1) * 256 + ByteAt(d, 2)]), 3)

\* function table for parsing command messages
avdt_msg_prs_cmd(sig, msg, d) ==
  CASE sig = AVDT_SIG_DISCOVER -> avdt_msg_prs_none(msg, d)
    [] sig = AVDT_SIG_SETCONFIG -> avdt_msg_prs_setconfig_cmd(msg, d)
    [] sig = AVDT_SIG_RECONFIG -> avdt_msg_prs_reconfig_cmd(msg, d)
    [] sig \in {AVDT_SIG_START, AVDT_SIG_SUSPEND} -> avdt_msg_prs_multi(msg, d)
    [] sig = AVDT_SIG_SECURITY -> avdt_msg_prs_security_cmd(msg, d)
    [] sig = AVDT_SIG_DELAY_RPT -> avdt_msg_prs_delay_rpt(msg, d)
    [] OTHER -> avdt_msg_prs_single(msg, d)

\* function table for parsing response messages
avdt_msg_prs_rsp(sig, msg, d) ==
  CASE sig = AVDT_SIG_DISCOVER -> avdt_msg_prs_discover_rsp(msg, d)
    [] sig = AVDT_SIG_GETCAP -> avdt_msg_prs_svccap(msg, d)
    [] sig \in {AVDT_SIG_GETCONFIG, AVDT_SIG_GET_ALLCAP} -> avdt_msg_prs_all_svccap(msg, d)
    [] sig = AVDT_SIG_SECURITY -> avdt_msg_prs_security_rsp(msg, d)
    [] OTHER -> avdt_msg_prs_none(msg, d)

(***************************************************************************)
(* Message-to-event lookup tables.  mkr is AVDT_CCB_MKR: the event goes to *)
(* the CCB state machine; otherwise to the stream's.  evt "0" is no event. *)
(***************************************************************************)
Evt(mkr, evt) == [mkr |-> mkr, evt |-> evt]

avdt_msg_cmd_2_evt(sig) ==
  CASE sig = AVDT_SIG_DISCOVER -> Evt(TRUE, "AVDT_CCB_MSG_DISCOVER_CMD_EVT")
    [] sig = AVDT_SIG_GETCAP -> Evt(TRUE, "AVDT_CCB_MSG_GETCAP_CMD_EVT")
    [] sig = AVDT_SIG_SETCONFIG -> Evt(FALSE, "AVDT_SCB_MSG_SETCONFIG_CMD_EVT")
    [] sig = AVDT_SIG_GETCONFIG -> Evt(FALSE, "AVDT_SCB_MSG_GETCONFIG_CMD_EVT")
    [] sig = AVDT_SIG_RECONFIG -> Evt(FALSE, "AVDT_SCB_MSG_RECONFIG_CMD_EVT")
    [] sig = AVDT_SIG_OPEN -> Evt(FALSE, "AVDT_SCB_MSG_OPEN_CMD_EVT")
    [] sig = AVDT_SIG_START -> Evt(TRUE, "AVDT_CCB_MSG_START_CMD_EVT")
    [] sig = AVDT_SIG_CLOSE -> Evt(FALSE, "AVDT_SCB_MSG_CLOSE_CMD_EVT")
    [] sig = AVDT_SIG_SUSPEND -> Evt(TRUE, "AVDT_CCB_MSG_SUSPEND_CMD_EVT")
    [] sig = AVDT_SIG_ABORT -> Evt(FALSE, "AVDT_SCB_MSG_ABORT_CMD_EVT")
    [] sig = AVDT_SIG_SECURITY -> Evt(FALSE, "AVDT_SCB_MSG_SECURITY_CMD_EVT")
    [] sig = AVDT_SIG_GET_ALLCAP -> Evt(TRUE, "AVDT_CCB_MSG_GETCAP_CMD_EVT")
    [] sig = AVDT_SIG_DELAY_RPT -> Evt(FALSE, "AVDT_SCB_MSG_DELAY_RPT_CMD_EVT")

avdt_msg_rsp_2_evt(sig) ==
  CASE sig = AVDT_SIG_DISCOVER -> Evt(TRUE, "AVDT_CCB_MSG_DISCOVER_RSP_EVT")
    [] sig = AVDT_SIG_GETCAP -> Evt(TRUE, "AVDT_CCB_MSG_GETCAP_RSP_EVT")
    [] sig = AVDT_SIG_SETCONFIG -> Evt(FALSE, "AVDT_SCB_MSG_SETCONFIG_RSP_EVT")
    [] sig = AVDT_SIG_GETCONFIG -> Evt(FALSE, "AVDT_SCB_MSG_GETCONFIG_RSP_EVT")
    [] sig = AVDT_SIG_RECONFIG -> Evt(FALSE, "AVDT_SCB_MSG_RECONFIG_RSP_EVT")
    [] sig = AVDT_SIG_OPEN -> Evt(FALSE, "AVDT_SCB_MSG_OPEN_RSP_EVT")
    [] sig = AVDT_SIG_START -> Evt(TRUE, "AVDT_CCB_MSG_START_RSP_EVT")
    [] sig = AVDT_SIG_CLOSE -> Evt(FALSE, "AVDT_SCB_MSG_CLOSE_RSP_EVT")
    [] sig = AVDT_SIG_SUSPEND -> Evt(TRUE, "AVDT_CCB_MSG_SUSPEND_RSP_EVT")
    [] sig = AVDT_SIG_ABORT -> Evt(FALSE, "AVDT_SCB_MSG_ABORT_RSP_EVT")
    [] sig = AVDT_SIG_SECURITY -> Evt(FALSE, "AVDT_SCB_MSG_SECURITY_RSP_EVT")
    [] sig = AVDT_SIG_GET_ALLCAP -> Evt(TRUE, "AVDT_CCB_MSG_GETCAP_RSP_EVT")
    [] sig = AVDT_SIG_DELAY_RPT -> Evt(FALSE, "AVDT_SCB_MSG_DELAY_RPT_RSP_EVT")

avdt_msg_rej_2_evt(sig) ==
  CASE sig = AVDT_SIG_SETCONFIG -> Evt(FALSE, "AVDT_SCB_MSG_SETCONFIG_REJ_EVT")
    [] sig = AVDT_SIG_OPEN -> Evt(FALSE, "AVDT_SCB_MSG_OPEN_REJ_EVT")
    [] sig = AVDT_SIG_DELAY_RPT -> Evt(FALSE, "0")
    [] OTHER -> avdt_msg_rsp_2_evt(sig)

(***************************************************************************)
(* Replies built by avdt_msg_ind.  Each is queued on rsp_q and the CCB is  *)
(* told to send (AVDT_CCB_SENDMSG_EVT).                                    *)
(***************************************************************************)
\* a reject built without the error code
avdt_msg_send_rej_code_omitted(sig_id, p_params) ==
  BuiltMsg(p_params.label, AVDT_MSG_TYPE_REJ, sig_id, <<p_params.err_param>>)

avdt_msg_send_rej(sig_id, p_params) ==
  LET param == IF sig_id \in {AVDT_SIG_SETCONFIG, AVDT_SIG_RECONFIG}
                 THEN <<p_params.err_param>>
               ELSE IF sig_id \in {AVDT_SIG_START, AVDT_SIG_SUSPEND}
                 THEN <<(p_params.err_param * 4) % 256>>
               ELSE <<>>
      body == IF sig_id # AVDT_SIG_NONE THEN param \o <<p_params.err_code>> ELSE <<>>
  IN BuiltMsg(p_params.label, AVDT_MSG_TYPE_REJ, sig_id, body)

\* a general reject built with the message type of a reject
avdt_msg_send_grej_typed_rej(sig_id, p_params) ==
  BuiltMsg(p_params.label, AVDT_MSG_TYPE_REJ, sig_id, <<>>)

avdt_msg_send_grej(sig_id, p_params) ==
  BuiltMsg(p_params.label, AVDT_MSG_TYPE_GRJ, sig_id, <<>>)

\* an event handed to avdt_ccb_event or avdt_scb_event
CcbEvent(evt) == [to |-> "ccb", evt |-> evt, hdl |-> 0]
ScbEvent(evt, hdl) == [to |-> "scb", evt |-> evt, hdl |-> hdl]

\* avdt_ccb_event(p_ccb, AVDT_CCB_RCVRSP_EVT): the command that was answered
\* is freed (the next queued command may then be sent)
avdt_ccb_rcv_rsp(c) == [c EXCEPT !.p_curr_cmd = NULL]

\* the timers stopped with the retransmission count left as it was
avdt_msg_ind_cmd_answered_count_kept(c) ==
  [c EXCEPT !.idle_ccb_timer = FALSE, !.ret_ccb_timer = FALSE,
            !.rsp_ccb_timer = FALSE]

\* avdt_msg_ind, a response that matches the outstanding command: stop the
\* timers and clear the retransmission count
avdt_msg_ind_cmd_answered(c) ==
  [c EXCEPT !.idle_ccb_timer = FALSE, !.ret_ccb_timer = FALSE,
            !.rsp_ccb_timer = FALSE, !.ret_count = 0]

(***************************************************************************)
(* avdt_msg_ind(p_ccb, p_buf), in the order of the function: reassembly,   *)
(* header and signal checks, parsing, then matching and dispatch.  Returns *)
(* the CCB, the message reassembly returned, the replies queued on rsp_q   *)
(* and the events raised, in order.                                        *)
(***************************************************************************)

\* a dispatch that goes on to the event of a command the parser refused
avdt_msg_ind_disp_rejected_cmd_dispatched(c, p_buf, label, msg_type, sig, gen_rej, ok, rsp_q, pr) ==
  LET cur == c.p_curr_cmd
      parse == ok /\ ~gen_rej
      is_rsp == msg_type \in {AVDT_MSG_TYPE_RSP, AVDT_MSG_TYPE_REJ}
      msg == IF parse /\ msg_type # AVDT_MSG_TYPE_REJ
               THEN [pr.msg EXCEPT !.err_code = pr.err] ELSE pr.msg
      evt == IF gen_rej
               THEN (IF cur # NULL THEN avdt_msg_rej_2_evt(sig) ELSE Evt(FALSE, "0"))
             ELSE IF ~parse THEN Evt(FALSE, "0")
             ELSE IF msg_type = AVDT_MSG_TYPE_CMD THEN avdt_msg_cmd_2_evt(sig)
             ELSE IF msg_type = AVDT_MSG_TYPE_RSP THEN avdt_msg_rsp_2_evt(sig)
             ELSE avdt_msg_rej_2_evt(sig)
      rej == IF pr.err # 0 /\ msg_type = AVDT_MSG_TYPE_CMD /\ sig # AVDT_SIG_ABORT
               THEN <<avdt_msg_send_rej(sig, msg)>> ELSE <<>>
      matched == cur # NULL /\ cur.event = sig /\ cur.layer_specific.label = label
      handle_rsp == ok /\ pr.err = 0 /\ is_rsp /\ matched
      ok3 == ok /\ (is_rsp => matched)
      scb_hdl == IF msg_type = AVDT_MSG_TYPE_CMD THEN msg.seid ELSE cur.hdl
  IN [ccb |-> IF handle_rsp THEN avdt_ccb_rcv_rsp(avdt_msg_ind_cmd_answered(c))
              ELSE c,
      p_ret |-> p_buf,
      rsp_q |-> rsp_q \o rej,
      events |-> (IF ~ok3 THEN <<>>
                  ELSE IF evt.mkr THEN <<CcbEvent(evt.evt)>>
                  ELSE IF evt.evt # "0" /\ avdt_scb_by_hdl(scb_hdl)
                    THEN <<ScbEvent(evt.evt, scb_hdl)>>
                  ELSE <<>>)
                 \o (IF handle_rsp THEN <<CcbEvent("AVDT_CCB_RCVRSP_EVT")>> ELSE <<>>)]

\* a dispatch that takes a response or reject the parser refused as the
\* answer to the outstanding command
avdt_msg_ind_disp_failed_rsp_handled(c, p_buf, label, msg_type, sig, gen_rej, ok, rsp_q, pr) ==
  LET cur == c.p_curr_cmd
      parse == ok /\ ~gen_rej
      is_rsp == msg_type \in {AVDT_MSG_TYPE_RSP, AVDT_MSG_TYPE_REJ}
      msg == IF parse /\ msg_type # AVDT_MSG_TYPE_REJ
               THEN [pr.msg EXCEPT !.err_code = pr.err] ELSE pr.msg
      evt == IF gen_rej
               THEN (IF cur # NULL THEN avdt_msg_rej_2_evt(sig) ELSE Evt(FALSE, "0"))
             ELSE IF ~parse THEN Evt(FALSE, "0")
             ELSE IF msg_type = AVDT_MSG_TYPE_CMD THEN avdt_msg_cmd_2_evt(sig)
             ELSE IF msg_type = AVDT_MSG_TYPE_RSP THEN avdt_msg_rsp_2_evt(sig)
             ELSE avdt_msg_rej_2_evt(sig)
      rej == IF pr.err # 0 /\ msg_type = AVDT_MSG_TYPE_CMD /\ sig # AVDT_SIG_ABORT
               THEN <<avdt_msg_send_rej(sig, msg)>> ELSE <<>>
      matched == cur # NULL /\ cur.event = sig /\ cur.layer_specific.label = label
      handle_rsp == ok /\ is_rsp /\ matched
      ok3 == ok /\ pr.err = 0 /\ (is_rsp => matched)
      scb_hdl == IF msg_type = AVDT_MSG_TYPE_CMD THEN msg.seid ELSE cur.hdl
  IN [ccb |-> IF handle_rsp THEN avdt_ccb_rcv_rsp(avdt_msg_ind_cmd_answered(c))
              ELSE c,
      p_ret |-> p_buf,
      rsp_q |-> rsp_q \o rej,
      events |-> (IF ~ok3 THEN <<>>
                  ELSE IF evt.mkr THEN <<CcbEvent(evt.evt)>>
                  ELSE IF evt.evt # "0" /\ avdt_scb_by_hdl(scb_hdl)
                    THEN <<ScbEvent(evt.evt, scb_hdl)>>
                  ELSE <<>>)
                 \o (IF handle_rsp THEN <<CcbEvent("AVDT_CCB_RCVRSP_EVT")>> ELSE <<>>)]

\* from "if parsing failed" to the end: pr is what the parser returned (error
\* 0 and the message as set up when nothing was parsed), ok the flag as it
\* stood before parsing, rsp_q the replies queued so far
avdt_msg_ind_disp(c, p_buf, label, msg_type, sig, gen_rej, ok, rsp_q, pr) ==
  LET cur == c.p_curr_cmd
      parse == ok /\ ~gen_rej
      is_rsp == msg_type \in {AVDT_MSG_TYPE_RSP, AVDT_MSG_TYPE_REJ}
      msg == IF parse /\ msg_type # AVDT_MSG_TYPE_REJ
               THEN [pr.msg EXCEPT !.err_code = pr.err] ELSE pr.msg
      evt == IF gen_rej
               THEN (IF cur # NULL THEN avdt_msg_rej_2_evt(sig) ELSE Evt(FALSE, "0"))
             ELSE IF ~parse THEN Evt(FALSE, "0")
             ELSE IF msg_type = AVDT_MSG_TYPE_CMD THEN avdt_msg_cmd_2_evt(sig)
             ELSE IF msg_type = AVDT_MSG_TYPE_RSP THEN avdt_msg_rsp_2_evt(sig)
             ELSE avdt_msg_rej_2_evt(sig)
      rej == IF pr.err # 0 /\ msg_type = AVDT_MSG_TYPE_CMD /\ sig # AVDT_SIG_ABORT
               THEN <<avdt_msg_send_rej(sig, msg)>> ELSE <<>>
      matched == cur # NULL /\ cur.event = sig /\ cur.layer_specific.label = label
      handle_rsp == ok /\ pr.err = 0 /\ is_rsp /\ matched
      ok3 == ok /\ pr.err = 0 /\ (is_rsp => matched)
      scb_hdl == IF msg_type = AVDT_MSG_TYPE_CMD THEN msg.seid ELSE cur.hdl
  IN [ccb |-> IF handle_rsp THEN avdt_ccb_rcv_rsp(avdt_msg_ind_cmd_answered(c))
              ELSE c,
      p_ret |-> p_buf,
      rsp_q |-> rsp_q \o rej,
      events |-> (IF ~ok3 THEN <<>>
                  ELSE IF evt.mkr THEN <<CcbEvent(evt.evt)>>
                  ELSE IF evt.evt # "0" /\ avdt_scb_by_hdl(scb_hdl)
                    THEN <<ScbEvent(evt.evt, scb_hdl)>>
                  ELSE <<>>)
                 \o (IF handle_rsp THEN <<CcbEvent("AVDT_CCB_RCVRSP_EVT")>> ELSE <<>>)]

\* "set up to parse message" and the call of the parsing function; d holds
\* the bytes after the header, msg0 the message header filled so far
avdt_msg_ind_prs(c, p_buf, d, label, msg_type, sig, gen_rej, ok, rsp_q, msg0) ==
  LET msg_in ==
        IF msg_type = AVDT_MSG_TYPE_RSP /\ sig = AVDT_SIG_DISCOVER
          THEN [msg0 EXCEPT !.num_seps = c.proc_param]
        ELSE IF msg_type = AVDT_MSG_TYPE_RSP
                /\ sig \in {AVDT_SIG_GETCAP, AVDT_SIG_GET_ALLCAP}
          THEN [msg0 EXCEPT !.p_cfg = c.p_proc_data]
        ELSE IF (msg_type = AVDT_MSG_TYPE_RSP /\ sig = AVDT_SIG_GETCONFIG)
                \/ (msg_type = AVDT_MSG_TYPE_CMD
                    /\ sig \in {AVDT_SIG_SETCONFIG, AVDT_SIG_RECONFIG})
          THEN [msg0 EXCEPT !.p_cfg = EmptyCfg]
        ELSE msg0
  IN avdt_msg_ind_disp(c, p_buf, label, msg_type, sig, gen_rej, ok, rsp_q,
       IF ~(ok /\ ~gen_rej) THEN PrsOut(0, msg0)
       ELSE IF msg_type = AVDT_MSG_TYPE_CMD THEN avdt_msg_prs_cmd(sig, msg_in, d)
       ELSE IF msg_type = AVDT_MSG_TYPE_RSP THEN avdt_msg_prs_rsp(sig, msg_in, d)
       ELSE avdt_msg_prs_rej(msg_in, d, sig))

\* the message header: message type, general reject, signal; b holds the
\* bytes of the reassembled message
avdt_msg_ind_hdr(c, p_buf, b) ==
  LET label == AVDT_MSG_PRS_LABEL(b[1])
      msg_type == AVDT_MSG_PRS_MSG_TYPE(b[1])
      cur == c.p_curr_cmd
      is_grj == msg_type = AVDT_MSG_TYPE_GRJ
      gen_rej == msg_type = AVDT_MSG_TYPE_REJ /\ p_buf.len = AVDT_LEN_GEN_REJ
      sig == IF is_grj THEN 0
             ELSE IF gen_rej THEN (IF cur # NULL THEN cur.event % 256 ELSE 0)
             ELSE AVDT_MSG_PRS_SIG(b[2])
      bad_sig == ~is_grj /\ ~gen_rej /\ (sig = 0 \/ sig > AVDT_SIG_MAX)
      mismatch == /\ ~is_grj /\ ~gen_rej
                  /\ msg_type \in {AVDT_MSG_TYPE_RSP, AVDT_MSG_TYPE_REJ}
                  /\ (cur = NULL \/ cur.event # sig)
      msg0 == [EmptyMsg EXCEPT
                 !.label = label,
                 !.sig_id = sig,
                 !.err_code = IF gen_rej /\ cur # NULL THEN AVDT_ERR_NSC ELSE 0]
  IN avdt_msg_ind_prs(c, p_buf, SubSeq(b, AVDT_LEN_TYPE_SINGLE + 1, Len(b)),
       label, msg_type, sig, gen_rej,
       ~is_grj /\ ~bad_sig /\ ~mismatch,
       IF bad_sig /\ msg_type = AVDT_MSG_TYPE_CMD
         THEN <<avdt_msg_send_grej(sig, msg0)>> ELSE <<>>,
       msg0)

avdt_msg_ind(c, p_in) ==
  LET a == avdt_msg_asmbl(c, p_in)
  IN IF a.p_ret = NULL
       THEN [ccb |-> a.ccb, p_ret |-> NULL, rsp_q |-> <<>>, events |-> <<>>]
       ELSE avdt_msg_ind_hdr(a.ccb, a.p_ret, Bytes(a.p_ret))

(***************************************************************************)
(* SpecRx: a CCB with at most one outstanding command receives arbitrary   *)
(* packets from its peer.                                                  *)
(***************************************************************************)
LabelL == 5                  \* the label of the outstanding command
LabelOther == 6

\* a command as avdt_msg_send_cmd stamps it; hdl is the stream handle stored
\* in the buffer for the response
Cmd(sig, label, hdl) ==
  [event |-> sig, layer_specific |-> [label |-> label, msg |-> AVDT_MSG_TYPE_CMD],
   hdl |-> hdl, offset |-> AVDT_MSG_OFFSET, len |-> 0, data |-> Zeros(AVDT_MSG_OFFSET)]

RxCmds ==
  {Cmd(AVDT_SIG_DISCOVER, LabelL, 0), Cmd(AVDT_SIG_OPEN, LabelL, 1),
   Cmd(AVDT_SIG_OPEN, LabelL, 2), Cmd(AVDT_SIG_START, LabelL, 1),
   Cmd(AVDT_SIG_DELAY_RPT, LabelL, 1)}

\* the CCB after avdt_ccb_snd_cmd has sent cmd: it is the outstanding
\* command and avdt_msg_send has set its timer
CcbAwaiting(cmd, ret_count) ==
  LET c0 == [InitCcb(MaxPeerMtu, 3) EXCEPT !.idle_ccb_timer = TRUE,
                                            !.proc_param = 1]
      c1 == avdt_msg_send(c0, cmd, 0).ccb
  IN [c1 EXCEPT !.p_curr_cmd = cmd,
                !.ret_count = IF c1.ret_ccb_timer THEN ret_count ELSE 0]

RxSigs == {0, AVDT_SIG_DISCOVER, AVDT_SIG_OPEN, AVDT_SIG_START, AVDT_SIG_ABORT,
           AVDT_SIG_DELAY_RPT, AVDT_SIG_MAX + 1, 63}
RxBodies == {<<>>, <<4>>, <<4, 0, 5>>}
RxLabels == {LabelL, LabelOther}
RxMsgTypes == {AVDT_MSG_TYPE_CMD, AVDT_MSG_TYPE_GRJ, AVDT_MSG_TYPE_RSP, AVDT_MSG_TYPE_REJ}

\* the packets the peer may send
RxPkts ==
  {<<AVDT_MSG_BLD_HDR(l, AVDT_PKT_TYPE_SINGLE, t), sig>> \o body :
     l \in RxLabels, t \in RxMsgTypes, sig \in RxSigs, body \in RxBodies}
  \cup {<<AVDT_MSG_BLD_HDR(LabelL, AVDT_PKT_TYPE_START, t), 1, sig>> :
          t \in RxMsgTypes \ {AVDT_MSG_TYPE_GRJ}, sig \in {AVDT_SIG_OPEN, AVDT_SIG_MAX + 1}}
  \cup {<<AVDT_MSG_BLD_HDR(LabelL, AVDT_PKT_TYPE_START, AVDT_MSG_TYPE_CMD), 1,
          AVDT_SIG_OPEN>> \o Zeros(RxBufSize - BT_HDR_SIZE - RxOffset - 2)}
  \cup {<<AVDT_MSG_BLD_HDR(LabelL, AVDT_PKT_TYPE_CONT, AVDT_MSG_TYPE_CMD), 4>>,
        <<AVDT_MSG_BLD_HDR(LabelL, AVDT_PKT_TYPE_END, AVDT_MSG_TYPE_CMD)>>,
        <<AVDT_MSG_BLD_HDR(LabelL, AVDT_PKT_TYPE_END, AVDT_MSG_TYPE_CMD), 4>>}
  \cup {<<>>,
        <<AVDT_MSG_BLD_HDR(LabelL, AVDT_PKT_TYPE_SINGLE, AVDT_MSG_TYPE_CMD)>>,
        <<AVDT_MSG_BLD_HDR(LabelL, AVDT_PKT_TYPE_START, AVDT_MSG_TYPE_CMD), 1>>}

InitRx ==
  /\ ccb \in {[InitCcb(MaxPeerMtu, 3) EXCEPT !.idle_ccb_timer = TRUE]}
               \cup {CcbAwaiting(cmd, rc) : cmd \in RxCmds, rc \in {0, 1}}
  /\ peer_ccb = InitCcb(MinPeerMtu, 0)
  /\ wire = <<>>
  /\ orig = NULL
  /\ rxd = <<>>
  /\ ind = NoInd
  /\ run = NoRun
  /\ prs = NoPrs
  /\ xmit = NoSent
  /\ smp = SmpIdle(HCI_ROLE_MASTER, FALSE, "model")
  /\ avct = AvctIdle

\* the peer puts a packet on the signaling channel
PeerSends ==
  /\ wire = <<>>
  /\ \E pkt \in RxPkts : wire' = <<pkt>>
  /\ ind' = NoInd
  /\ UNCHANGED <<ccb, peer_ccb, orig, rxd, run, prs, xmit, smp, avct>>

\* a packet of at least the minimum length of its type
ValidPkt(pkt) ==
  Len(pkt) >= 1 /\ Len(pkt) >= avdt_msg_pkt_type_len(AVDT_MSG_PRS_PKT_TYPE(pkt[1]))

\* the adaption layer hands the packet to avdt_msg_ind
RcvPkt ==
  /\ wire # <<>>
  /\ LET pkt == Head(wire)
         r == avdt_msg_ind(ccb, RxBuf(pkt))
         type == AVDT_MSG_PRS_PKT_TYPE(pkt[1])
     IN /\ ccb' = r.ccb
        /\ ind' = [ret |-> r.p_ret # NULL,
                    hdr |-> IF r.p_ret # NULL
                              THEN SubSeq(Bytes(r.p_ret), 1, AVDT_LEN_TYPE_SINGLE)
                              ELSE <<>>,
                    rsp_q |-> r.rsp_q, events |-> r.events]
        /\ run' = IF ~ValidPkt(pkt) THEN run
                  ELSE [open |-> type = AVDT_PKT_TYPE_START
                                   \/ (type = AVDT_PKT_TYPE_CONT /\ run.open),
                        last |-> type]
  /\ wire' = <<>>
  /\ UNCHANGED <<peer_ccb, orig, rxd, prs, xmit, smp, avct>>

NextRx == PeerSends \/ RcvPkt

SpecRx == InitRx /\ [][NextRx]_vars

\* a RcvPkt step: the packet in flight is consumed
RcvStep == wire # <<>> /\ wire' = <<>>

\* the bytes a reassembly in progress has gathered: header, signal, body
Accumulated(rx) == SubSeq(rx.data, rx.offset - rx.len + 1, rx.offset)

PktType(pkt) == AVDT_MSG_PRS_PKT_TYPE(pkt[1])

\* the complete message that the packet in flight closes
ClosedMsg ==
  LET pkt == Head(wire)
  IN IF PktType(pkt) = AVDT_PKT_TYPE_SINGLE THEN pkt
     ELSE Accumulated(ccb.p_rx_msg) \o Tail(pkt)

\* the three parts of C3; min_length says whether only a SINGLE or START of at
\* least its minimum length must discard the reassembly in progress
AsmblOrder(min_length) ==
  RcvStep =>
    LET pkt == Head(wire)
    IN /\ ind'.ret =>
            /\ ValidPkt(pkt)
            /\ \/ PktType(pkt) = AVDT_PKT_TYPE_SINGLE
               \/ PktType(pkt) = AVDT_PKT_TYPE_END /\ run.open
       /\ ( /\ IF min_length THEN ValidPkt(pkt) ELSE Len(pkt) >= 1
            /\ PktType(pkt) \in {AVDT_PKT_TYPE_SINGLE, AVDT_PKT_TYPE_START}
            /\ ccb.p_rx_msg # NULL ) =>
            \/ ccb'.p_rx_msg = NULL
            \/ /\ PktType(pkt) = AVDT_PKT_TYPE_START
               /\ Accumulated(ccb'.p_rx_msg) = <<pkt[1]>> \o SubSeq(pkt, 3, Len(pkt))
       /\ ( /\ Len(pkt) >= 1
            /\ PktType(pkt) \in {AVDT_PKT_TYPE_CONT, AVDT_PKT_TYPE_END}
            /\ ccb.p_rx_msg = NULL ) =>
            (~ind'.ret /\ ccb' = ccb)

\* C3 (as amended): avdt_msg_asmbl returns a message only for a SINGLE packet
\* or for an END packet that closes a run START CONT* END with no SINGLE or
\* START in between; a SINGLE or START of at least its minimum length received
\* while a reassembly is in progress discards the in-progress buffer; a CONT or
\* END received with no reassembly in progress is dropped and leaves the
\* reassembly state unchanged.
C3_AsmblOrder == [][AsmblOrder(TRUE)]_vars

\* C3 as stated: every SINGLE or START, whatever its length, discards the
\* reassembly in progress
C3_AsmblOrderAnyLength == [][AsmblOrder(FALSE)]_vars

\* an END packet has closed a run and the message was returned
C3_Witness == ind.ret /\ run.last = AVDT_PKT_TYPE_END /\ ccb.p_rx_msg = NULL

\* the two parts of C4 for signal ids above max_sig; two_byte_rej says
\* whether a reject of AVDT_LEN_GEN_REJ bytes counts as a reject to drop
BadSignal(max_sig, two_byte_rej) ==
  (RcvStep /\ ind'.ret) =>
    LET m == ClosedMsg
        label == AVDT_MSG_PRS_LABEL(m[1])
        msg_type == AVDT_MSG_PRS_MSG_TYPE(m[1])
        sig == AVDT_MSG_PRS_SIG(m[2])
    IN (sig = 0 \/ sig > max_sig) =>
         /\ msg_type = AVDT_MSG_TYPE_CMD =>
              /\ Len(ind'.rsp_q) = 1
              /\ ind'.rsp_q[1].layer_specific =
                   [label |-> label, msg |-> AVDT_MSG_TYPE_GRJ]
              /\ ind'.rsp_q[1].len = 0
         /\ ( /\ msg_type \in {AVDT_MSG_TYPE_RSP, AVDT_MSG_TYPE_REJ}
              /\ two_byte_rej \/ ~(msg_type = AVDT_MSG_TYPE_REJ /\ Len(m) = AVDT_LEN_GEN_REJ) ) =>
              /\ ind'.rsp_q = <<>>
              /\ ind'.events = <<>>
              /\ ccb'.p_curr_cmd = ccb.p_curr_cmd

\* C4 (as amended): a complete inbound message whose signal id is 0 or greater
\* than 13 triggers exactly one General-Reject echoing the received label when
\* its message type is command, and is dropped with no reply, no event and no
\* change to the outstanding command when its message type is response or
\* reject, a two-byte reject excepted (it is taken as a general reject of the
\* outstanding command, whatever its signal byte).
C4_BadSignal == [][BadSignal(AVDT_SIG_MAX, FALSE)]_vars

\* C4 as stated: signal ids above 12, and every reject
C4_BadSignalAbove12 == [][BadSignal(12, TRUE)]_vars

\* a General-Reject that echoes the label of a command with signal id 14
C4_Witness ==
  /\ ind.ret
  /\ Len(ind.rsp_q) = 1
  /\ ind.rsp_q[1].layer_specific = [label |-> LabelOther, msg |-> AVDT_MSG_TYPE_GRJ]
  /\ ind.rsp_q[1].event = AVDT_SIG_MAX + 1
  /\ ind.events = <<>>

\* the parser accepts the parameters d of a response or reject to signal sig
WellFormed(c, msg_type, sig, d) ==
  IF msg_type = AVDT_MSG_TYPE_RSP
    THEN avdt_msg_prs_rsp(sig,
           [EmptyMsg EXCEPT !.num_seps = c.proc_param,
                            !.p_cfg = IF sig = AVDT_SIG_GETCONFIG THEN EmptyCfg
                                      ELSE c.p_proc_data], d).err = 0
    ELSE avdt_msg_prs_rej(EmptyMsg, d, sig).err = 0

RcvRsp == CcbEvent("AVDT_CCB_RCVRSP_EVT")

\* the two parts of C5; always_event says whether every signal is taken to
\* have an event to dispatch
Answered(always_event) ==
  (RcvStep /\ ind'.ret /\ ccb.p_curr_cmd # NULL) =>
    LET m == ClosedMsg
        label == AVDT_MSG_PRS_LABEL(m[1])
        msg_type == AVDT_MSG_PRS_MSG_TYPE(m[1])
        sig == AVDT_MSG_PRS_SIG(m[2])
        cur == ccb.p_curr_cmd
        e == IF msg_type = AVDT_MSG_TYPE_RSP THEN avdt_msg_rsp_2_evt(sig)
             ELSE avdt_msg_rej_2_evt(sig)
        has_event == e.mkr \/ (e.evt # "0" /\ cur.hdl \in AllocatedScbs)
    IN (msg_type \in {AVDT_MSG_TYPE_RSP, AVDT_MSG_TYPE_REJ} /\ sig = cur.event) =>
         /\ ( /\ label = cur.layer_specific.label
              /\ WellFormed(ccb, msg_type, sig, SubSeq(m, 3, Len(m))) ) =>
              /\ ~ccb'.idle_ccb_timer /\ ~ccb'.ret_ccb_timer /\ ~ccb'.rsp_ccb_timer
              /\ ccb'.ret_count = 0
              /\ IF always_event \/ has_event
                   THEN /\ Len(ind'.events) = 2
                        /\ ind'.events[1].evt = e.evt
                        /\ ind'.events[1].to = (IF e.mkr THEN "ccb" ELSE "scb")
                        /\ ind'.events[2] = RcvRsp
                   ELSE ind'.events = <<RcvRsp>>
         /\ label # cur.layer_specific.label =>
              /\ ccb'.idle_ccb_timer = ccb.idle_ccb_timer
              /\ ccb'.ret_ccb_timer = ccb.ret_ccb_timer
              /\ ccb'.rsp_ccb_timer = ccb.rsp_ccb_timer
              /\ ccb'.ret_count = ccb.ret_count
              /\ ind'.events = <<>>
              /\ ccb'.p_curr_cmd = cur

\* C5 (as amended): with one outstanding command of signal S and label L, a
\* well-formed response or reject with signal S and label L stops the idle,
\* retransmit and response timers, resets the retransmission counter to 0,
\* dispatches its event (when its signal maps to one and, for a stream event,
\* the stream of the outstanding command exists) and then raises the
\* receive-response event exactly once; a response or reject with signal S
\* but another label is dropped: no timer is stopped, the retransmission
\* counter is unchanged, no event is dispatched and the outstanding command
\* stays outstanding.
C5_Answered == [][Answered(FALSE)]_vars

\* C5 as stated: an event is dispatched for every matching response or reject
C5_AnsweredAlwaysEvent == [][Answered(TRUE)]_vars

\* a matching response has been dispatched and the command is no longer
\* outstanding: no timer runs, the counter is 0
C5_Witness ==
  /\ Len(ind.events) = 2
  /\ ind.events[1].evt = "AVDT_SCB_MSG_OPEN_RSP_EVT"
  /\ ind.events[2] = RcvRsp
  /\ ccb.p_curr_cmd = NULL
  /\ ~ccb.idle_ccb_timer /\ ~ccb.ret_ccb_timer /\ ~ccb.rsp_ccb_timer
  /\ ccb.ret_count = 0

(***************************************************************************)
(* SMP pairing engine: the state machine and its action functions.         *)
(* smp.todo holds the calls still to run, first to last: an event raised   *)
(* inside an action function goes to the front, so it is dispatched before *)
(* the actions that follow in the state table entry, as the nested         *)
(* smp_sm_event call is in the source. Inputs from the peer, the           *)
(* application and the controller arrive only when smp.todo is empty.      *)
(* smp.tx and smp.cmpl are the PDUs sent and the completions reported to   *)
(* the application since the last input, smp.ext names that input.         *)
(***************************************************************************)
SmEvt(event, p_data) == [k |-> "evt", n |-> event, d |-> p_data]
SmAct(action, p_data) == [k |-> "act", n |-> action, d |-> p_data]

\* smp_sm_event(p_cb, event, p_data) called inside an action function
Raise(m, event, p_data) == [m EXCEPT !.todo = <<SmEvt(event, p_data)>> \o @]

\* smp_send_cmd: the PDU goes to L2CAP and counts as unacknowledged; cfm_sent
\* records that a Pairing Confirm went out in the pairing under way
smp_send_cmd(m, cmd_code) ==
  [m EXCEPT !.tx = Append(@, cmd_code),
            !.cfm_sent = @ \/ cmd_code = SMP_OPCODE_CONFIRM,
            !.cb.total_tx_unacked = @ + 1]

\* smp_proc_pairing_cmpl: SMP_COMPLT_EVT goes to the application with the
\* status of the pairing, and smp_reset_control_value zeroes the block
smp_proc_pairing_cmpl(m) ==
  [m EXCEPT !.cmpl = Append(@, [reason |-> m.cb.status,
                                sec_level |-> IF m.cb.status = SMP_SUCCESS
                                                THEN m.cb.sec_level
                                                ELSE SMP_SEC_NONE]),
            !.cb = SmpZeroCb]

\* smp_command_has_invalid_length: the received length is not the length
\* of the received opcode
smp_command_has_invalid_length(cb) ==
  \/ cb.rcvd_cmd_code \notin DOMAIN smp_cmd_size_per_spec
  \/ cb.rcvd_cmd_len # smp_cmd_size_per_spec[cb.rcvd_cmd_code]

\* smp_command_has_invalid_parameters: the length, and for a pairing request
\* or response the ranges of the fields already copied to the block
smp_command_has_invalid_parameters(cb) ==
  \/ smp_command_has_invalid_length(cb)
  \/ /\ cb.rcvd_cmd_code \in {SMP_OPCODE_PAIRING_REQ, SMP_OPCODE_PAIRING_RSP}
     /\ \/ cb.peer_io_caps > SMP_IO_CAP_KBDISP
        \/ cb.peer_oob_flag > SMP_OOB_PRESENT
        \/ cb.peer_enc_size < SMP_ENCR_KEY_SIZE_MIN
        \/ cb.peer_enc_size > SMP_MAX_ENC_KEY_SIZE

\* the IO capability matrix of the Core Specification (Vol 3, Part H,
\* 2.3.5.1), for the initiator's and the responder's capabilities: who
\* shows the passkey, who types it
IoNoKeyboard(io) == io \in {SMP_IO_CAP_OUT, SMP_IO_CAP_IO}
IoKeyboard(io) == io \in {SMP_IO_CAP_IN, SMP_IO_CAP_KBDISP}
IoJustWorks(init, resp) ==
  \/ init = SMP_IO_CAP_NONE
  \/ resp = SMP_IO_CAP_NONE
  \/ (IoNoKeyboard(init) /\ IoNoKeyboard(resp))
IoInitiatorDisplays(init, resp) ==
  IoKeyboard(resp) /\ (IoNoKeyboard(init) \/ init = SMP_IO_CAP_KBDISP)
IoNumericComparison(init, resp) ==
  init \in {SMP_IO_CAP_IO, SMP_IO_CAP_KBDISP}
    /\ resp \in {SMP_IO_CAP_IO, SMP_IO_CAP_KBDISP}

\* the initiator's and the responder's IO capabilities
IoInitResp(cb) ==
  IF cb.role = HCI_ROLE_MASTER
    THEN <<cb.local_io_capability, cb.peer_io_caps>>
    ELSE <<cb.peer_io_caps, cb.local_io_capability>>

\* does the local device show the passkey (the peer types it)? When the
\* initiator does not, the responder does unless it has a keyboard only
IoLocalDisplays(cb) ==
  LET ir == IoInitResp(cb)
  IN IF cb.role = HCI_ROLE_MASTER
       THEN IoInitiatorDisplays(ir[1], ir[2])
       ELSE ~IoInitiatorDisplays(ir[1], ir[2]) /\ ir[2] # SMP_IO_CAP_IN

smp_select_association_model_legacy(cb) ==
  LET ir == IoInitResp(cb)
  IN IF cb.peer_oob_flag = SMP_OOB_PRESENT /\ cb.loc_oob_flag = SMP_OOB_PRESENT
       THEN "SMP_MODEL_OOB"
     ELSE IF SMP_AUTH_YN_BIT \notin (cb.peer_auth_req \cup cb.loc_auth_req)
       THEN "SMP_MODEL_ENCRYPTION_ONLY"
     ELSE IF IoJustWorks(ir[1], ir[2]) THEN "SMP_MODEL_ENCRYPTION_ONLY"
     ELSE IF IoLocalDisplays(cb) THEN "SMP_MODEL_KEY_NOTIF"
     ELSE "SMP_MODEL_PASSKEY"

smp_select_association_model_secure_connections(cb) ==
  LET ir == IoInitResp(cb)
  IN IF cb.peer_oob_flag = SMP_OOB_PRESENT \/ cb.loc_oob_flag = SMP_OOB_PRESENT
       THEN "SMP_MODEL_SEC_CONN_OOB"
     ELSE IF SMP_AUTH_YN_BIT \notin (cb.peer_auth_req \cup cb.loc_auth_req)
       THEN "SMP_MODEL_SEC_CONN_JUSTWORKS"
     ELSE IF IoNumericComparison(ir[1], ir[2])
       THEN "SMP_MODEL_SEC_CONN_NUM_COMP"
     ELSE IF IoJustWorks(ir[1], ir[2]) THEN "SMP_MODEL_SEC_CONN_JUSTWORKS"
     ELSE IF IoLocalDisplays(cb) THEN "SMP_MODEL_SEC_CONN_PASSKEY_DISP"
     ELSE "SMP_MODEL_SEC_CONN_PASSKEY_ENT"

\* smp_select_association_model, with the assignment of its result: Secure
\* Connections are in use when both AuthReq bytes carry the SC bit; the
\* model comes from the OOB flags, the MITM bits and the IO capabilities
smp_select_association_model(cb) ==
  LET sc == SMP_SC_SUPPORT_BIT \in (cb.peer_auth_req \cap cb.loc_auth_req)
      h7 == SMP_H7_SUPPORT_BIT \in (cb.peer_auth_req \cap cb.loc_auth_req)
  IN [cb EXCEPT
        !.le_secure_connections_mode_is_used = sc,
        !.key_derivation_h7_used = h7 \/ @,
        !.selected_association_model =
           IF sc THEN smp_select_association_model_secure_connections(cb)
                 ELSE smp_select_association_model_legacy(cb)]

(***************************************************************************)
(* The state tables of smp_main.cc. An entry names up to two action        *)
(* functions and the next state; SMP_SM_IGNORE stands for an event with no *)
(* entry in the current state.                                             *)
(***************************************************************************)
SmEntry(actions, next_state) == [a |-> actions, s |-> next_state]
SMP_SM_IGNORE == SmEntry(<<>>, "SMP_SM_IGNORE")

\* smp_all_table: the events handled alike in every state but IDLE
smp_all_table(event) ==
  CASE event = "SMP_PAIRING_FAILED_EVT" ->
         SmEntry(<<"smp_proc_pair_fail", "smp_pairing_cmpl">>, "SMP_STATE_IDLE")
    [] event = "SMP_AUTH_CMPL_EVT" ->
         SmEntry(<<"smp_send_pair_fail", "smp_pairing_cmpl">>, "SMP_STATE_IDLE")
    [] event = "SMP_L2CAP_DISCONN_EVT" ->
         SmEntry(<<"smp_pair_terminate">>, "SMP_STATE_IDLE")
    [] OTHER -> SMP_SM_IGNORE

\* smp_master_entry_map: the tables of the states of the master
smp_master_table(state, event) ==
  CASE state = "SMP_STATE_IDLE" /\ event = "SMP_L2CAP_CONN_EVT" ->
         SmEntry(<<"smp_send_app_cback">>, "SMP_STATE_WAIT_APP_RSP")
    [] state = "SMP_STATE_IDLE" /\ event = "SMP_SEC_REQ_EVT" ->
         SmEntry(<<"smp_proc_sec_req", "smp_send_app_cback">>,
                 "SMP_STATE_WAIT_APP_RSP")
    [] state = "SMP_STATE_IDLE" /\ event = "SMP_L2CAP_DISCONN_EVT" ->
         SmEntry(<<"smp_idle_terminate">>, "SMP_STATE_IDLE")
    [] state = "SMP_STATE_WAIT_APP_RSP" /\ event = "SMP_API_SEC_GRANT_EVT" ->
         SmEntry(<<"smp_proc_sec_grant", "smp_send_app_cback">>,
                 "SMP_STATE_WAIT_APP_RSP")
    [] state = "SMP_STATE_WAIT_APP_RSP" /\ event = "SMP_IO_RSP_EVT" ->
         SmEntry(<<"smp_send_pair_req">>, "SMP_STATE_PAIR_REQ_RSP")
    [] state = "SMP_STATE_WAIT_APP_RSP" /\ event = "SMP_DISCARD_SEC_REQ_EVT" ->
         SmEntry(<<"smp_proc_discard">>, "SMP_STATE_IDLE")
    [] state = "SMP_STATE_PAIR_REQ_RSP" /\ event = "SMP_PAIRING_RSP_EVT" ->
         SmEntry(<<"smp_proc_pair_cmd">>, "SMP_STATE_PAIR_REQ_RSP")
    [] state = "SMP_STATE_PAIR_REQ_RSP" /\ event = "SMP_TK_REQ_EVT" ->
         SmEntry(<<"smp_send_app_cback">>, "SMP_STATE_WAIT_APP_RSP")
    [] state = "SMP_STATE_WAIT_NONCE" /\ event = "SMP_SC_DSPL_NC_EVT" ->
         SmEntry(<<"smp_send_app_cback">>, "SMP_STATE_WAIT_APP_RSP")
    [] state = "SMP_STATE_WAIT_APP_RSP" /\ event = "SMP_KEY_READY_EVT" ->
         SmEntry(<<"smp_generate_confirm">>, "SMP_STATE_WAIT_CONFIRM")
    [] state = "SMP_STATE_WAIT_APP_RSP" /\ event = "SMP_ENC_REQ_EVT" ->
         SmEntry(<<"smp_start_enc">>, "SMP_STATE_ENCRYPTION_PENDING")
    [] state = "SMP_STATE_PAIR_REQ_RSP" /\ event = "SMP_KEY_READY_EVT" ->
         SmEntry(<<"smp_generate_confirm">>, "SMP_STATE_WAIT_CONFIRM")
    [] state = "SMP_STATE_WAIT_CONFIRM" /\ event = "SMP_KEY_READY_EVT" ->
         SmEntry(<<"smp_send_confirm">>, "SMP_STATE_CONFIRM")
    [] state = "SMP_STATE_CONFIRM" /\ event = "SMP_CONFIRM_EVT" ->
         SmEntry(<<"smp_proc_confirm", "smp_send_init">>, "SMP_STATE_RAND")
    [] state = "SMP_STATE_RAND" /\ event = "SMP_RAND_EVT" ->
         SmEntry(<<"smp_proc_rand", "smp_generate_compare">>, "SMP_STATE_RAND")
    [] state = "SMP_STATE_RAND" /\ event = "SMP_KEY_READY_EVT" ->
         SmEntry(<<"smp_proc_compare">>, "SMP_STATE_RAND")
    [] state = "SMP_STATE_RAND" /\ event = "SMP_ENC_REQ_EVT" ->
         SmEntry(<<"smp_generate_stk">>, "SMP_STATE_ENCRYPTION_PENDING")
    [] state = "SMP_STATE_ENCRYPTION_PENDING" /\ event = "SMP_KEY_READY_EVT" ->
         SmEntry(<<"smp_start_enc">>, "SMP_STATE_ENCRYPTION_PENDING")
    [] state = "SMP_STATE_ENCRYPTION_PENDING" /\ event = "SMP_ENCRYPTED_EVT" ->
         SmEntry(<<"smp_check_auth_req">>, "SMP_STATE_ENCRYPTION_PENDING")
    [] state = "SMP_STATE_ENCRYPTION_PENDING" /\ event = "SMP_BOND_REQ_EVT" ->
         SmEntry(<<"smp_key_distribution">>, "SMP_STATE_BOND_PENDING")
    [] state = "SMP_STATE_BOND_PENDING" /\ event = "SMP_ENCRPTION_INFO_EVT" ->
         SmEntry(<<"smp_proc_enc_info">>, "SMP_STATE_BOND_PENDING")
    [] state = "SMP_STATE_BOND_PENDING" /\ event = "SMP_MASTER_ID_EVT" ->
         SmEntry(<<"smp_proc_master_id">>, "SMP_STATE_BOND_PENDING")
    [] state = "SMP_STATE_BOND_PENDING" /\ event = "SMP_ID_INFO_EVT" ->
         SmEntry(<<"smp_proc_id_info">>, "SMP_STATE_BOND_PENDING")
    [] state = "SMP_STATE_BOND_PENDING" /\ event = "SMP_ID_ADDR_EVT" ->
         SmEntry(<<"smp_proc_id_addr">>, "SMP_STATE_BOND_PENDING")
    [] state = "SMP_STATE_BOND_PENDING" /\ event = "SMP_SIGN_INFO_EVT" ->
         SmEntry(<<"smp_proc_srk_info">>, "SMP_STATE_BOND_PENDING")
    [] state = "SMP_STATE_BOND_PENDING" /\ event = "SMP_KEY_READY_EVT" ->
         SmEntry(<<"smp_send_enc_info">>, "SMP_STATE_BOND_PENDING")
    [] state = "SMP_STATE_WAIT_APP_RSP" /\ event = "SMP_SC_NC_OK_EVT" ->
         SmEntry(<<"smp_move_to_secure_connections_phase2">>,
                 "SMP_STATE_SEC_CONN_PHS2_START")
    [] state = "SMP_STATE_WAIT_APP_RSP" /\ event = "SMP_SC_KEY_READY_EVT" ->
         SmEntry(<<"smp_start_passkey_verification">>,
                 "SMP_STATE_SEC_CONN_PHS1_START")
    [] state = "SMP_STATE_WAIT_APP_RSP" /\ event = "SMP_PAIR_KEYPR_NOTIF_EVT" ->
         SmEntry(<<"smp_process_keypress_notification", "smp_send_app_cback">>,
                 "SMP_STATE_WAIT_APP_RSP")
    [] state = "SMP_STATE_PAIR_REQ_RSP" /\ event = "SMP_PUBL_KEY_EXCH_REQ_EVT" ->
         SmEntry(<<"smp_create_private_key">>,
                 "SMP_STATE_PUBLIC_KEY_EXCH")
    [] state = "SMP_STATE_PUBLIC_KEY_EXCH" /\ event = "SMP_LOC_PUBL_KEY_CRTD_EVT" ->
         SmEntry(<<"smp_send_pair_public_key">>,
                 "SMP_STATE_PUBLIC_KEY_EXCH")
    [] state = "SMP_STATE_PUBLIC_KEY_EXCH" /\ event = "SMP_PAIR_PUBLIC_KEY_EVT" ->
         SmEntry(<<"smp_process_pairing_public_key">>,
                 "SMP_STATE_PUBLIC_KEY_EXCH")
    [] state = "SMP_STATE_PUBLIC_KEY_EXCH" /\ event = "SMP_BOTH_PUBL_KEYS_RCVD_EVT" ->
         SmEntry(<<"smp_both_have_public_keys">>,
                 "SMP_STATE_SEC_CONN_PHS1_START")
    [] state = "SMP_STATE_SEC_CONN_PHS1_START" /\ event = "SMP_SC_DHKEY_CMPLT_EVT" ->
         SmEntry(<<"smp_start_secure_connection_phase1">>,
                 "SMP_STATE_SEC_CONN_PHS1_START")
    [] state = "SMP_STATE_SEC_CONN_PHS1_START" /\ event = "SMP_HAVE_LOC_NONCE_EVT" ->
         SmEntry(<<"smp_process_local_nonce">>,
                 "SMP_STATE_WAIT_COMMITMENT")
    [] state = "SMP_STATE_SEC_CONN_PHS1_START" /\ event = "SMP_TK_REQ_EVT" ->
         SmEntry(<<"smp_send_app_cback">>,
                 "SMP_STATE_WAIT_APP_RSP")
    [] state = "SMP_STATE_SEC_CONN_PHS1_START" /\ event = "SMP_KEY_READY_EVT" ->
         SmEntry(<<"smp_start_passkey_verification">>,
                 "SMP_STATE_SEC_CONN_PHS1_START")
    [] state = "SMP_STATE_SEC_CONN_PHS1_START" /\ event = "SMP_PAIR_KEYPR_NOTIF_EVT" ->
         SmEntry(<<"smp_process_keypress_notification", "smp_send_app_cback">>,
                 "SMP_STATE_SEC_CONN_PHS1_START")
    [] state = "SMP_STATE_SEC_CONN_PHS1_START" /\ event = "SMP_PAIR_COMMITM_EVT" ->
         SmEntry(<<"smp_process_pairing_commitment">>,
                 "SMP_STATE_SEC_CONN_PHS1_START")
    [] state = "SMP_STATE_WAIT_COMMITMENT" /\ event = "SMP_PAIR_COMMITM_EVT" ->
         SmEntry(<<"smp_process_pairing_commitment", "smp_send_rand">>,
                 "SMP_STATE_WAIT_NONCE")
    [] state = "SMP_STATE_WAIT_COMMITMENT" /\ event = "SMP_PAIR_KEYPR_NOTIF_EVT" ->
         SmEntry(<<"smp_process_keypress_notification", "smp_send_app_cback">>,
                 "SMP_STATE_WAIT_COMMITMENT")
    [] state = "SMP_STATE_WAIT_NONCE" /\ event = "SMP_RAND_EVT" ->
         SmEntry(<<"smp_proc_rand", "smp_process_peer_nonce">>,
                 "SMP_STATE_SEC_CONN_PHS2_START")
    [] state = "SMP_STATE_WAIT_NONCE" /\ event = "SMP_SC_CALC_NC_EVT" ->
         SmEntry(<<"smp_calculate_numeric_comparison_display_number">>,
                 "SMP_STATE_WAIT_NONCE")
    [] state = "SMP_STATE_SEC_CONN_PHS2_START" /\ event = "SMP_SC_PHASE1_CMPLT_EVT" ->
         SmEntry(<<"smp_calculate_local_dhkey_check", "smp_send_dhkey_check">>,
                 "SMP_STATE_WAIT_DHK_CHECK")
    [] state = "SMP_STATE_WAIT_DHK_CHECK" /\ event = "SMP_PAIR_DHKEY_CHCK_EVT" ->
         SmEntry(<<"smp_process_dhkey_check", "smp_calculate_peer_dhkey_check">>,
                 "SMP_STATE_DHK_CHECK")
    [] state = "SMP_STATE_DHK_CHECK" /\ event = "SMP_SC_KEY_READY_EVT" ->
         SmEntry(<<"smp_match_dhkey_checks">>,
                 "SMP_STATE_DHK_CHECK")
    [] state = "SMP_STATE_DHK_CHECK" /\ event = "SMP_ENC_REQ_EVT" ->
         SmEntry(<<"smp_generate_stk">>,
                 "SMP_STATE_ENCRYPTION_PENDING")
    [] OTHER -> SMP_SM_IGNORE

\* smp_slave_entry_map: the tables of the states of the slave
smp_slave_table(state, event) ==
  CASE state = "SMP_STATE_IDLE" /\ event = "SMP_L2CAP_CONN_EVT" ->
         SmEntry(<<"smp_send_app_cback">>, "SMP_STATE_WAIT_APP_RSP")
    [] state = "SMP_STATE_IDLE" /\ event = "SMP_PAIRING_REQ_EVT" ->
         SmEntry(<<"smp_proc_pair_cmd", "smp_send_app_cback">>,
                 "SMP_STATE_WAIT_APP_RSP")
    [] state = "SMP_STATE_IDLE" /\ event = "SMP_L2CAP_DISCONN_EVT" ->
         SmEntry(<<"smp_idle_terminate">>, "SMP_STATE_IDLE")
    [] state = "SMP_STATE_WAIT_APP_RSP" /\ event = "SMP_IO_RSP_EVT" ->
         SmEntry(<<"smp_process_io_response">>, "SMP_STATE_PAIR_REQ_RSP")
    [] state = "SMP_STATE_WAIT_APP_RSP" /\ event = "SMP_API_SEC_GRANT_EVT" ->
         SmEntry(<<"smp_proc_sec_grant", "smp_send_app_cback">>,
                 "SMP_STATE_WAIT_APP_RSP")
    [] state = "SMP_STATE_SEC_REQ_PENDING" /\ event = "SMP_PAIRING_REQ_EVT" ->
         SmEntry(<<"smp_proc_pair_cmd">>, "SMP_STATE_PAIR_REQ_RSP")
    [] state = "SMP_STATE_SEC_REQ_PENDING" /\ event = "SMP_ENCRYPTED_EVT" ->
         SmEntry(<<"smp_enc_cmpl">>, "SMP_STATE_PAIR_REQ_RSP")
    [] state = "SMP_STATE_PAIR_REQ_RSP" /\ event = "SMP_TK_REQ_EVT" ->
         SmEntry(<<"smp_send_app_cback">>, "SMP_STATE_WAIT_APP_RSP")
    [] state = "SMP_STATE_WAIT_NONCE" /\ event = "SMP_SC_DSPL_NC_EVT" ->
         SmEntry(<<"smp_send_app_cback">>, "SMP_STATE_WAIT_APP_RSP")
    [] state = "SMP_STATE_WAIT_APP_RSP" /\ event = "SMP_KEY_READY_EVT" ->
         SmEntry(<<"smp_proc_sl_key">>, "SMP_STATE_WAIT_APP_RSP")
    [] state = "SMP_STATE_WAIT_APP_RSP" /\ event = "SMP_CONFIRM_EVT" ->
         SmEntry(<<"smp_proc_confirm">>, "SMP_STATE_CONFIRM")
    [] state = "SMP_STATE_PAIR_REQ_RSP" /\ event = "SMP_CONFIRM_EVT" ->
         SmEntry(<<"smp_proc_confirm">>, "SMP_STATE_CONFIRM")
    [] state = "SMP_STATE_PAIR_REQ_RSP" /\ event = "SMP_KEY_READY_EVT" ->
         SmEntry(<<"smp_proc_sl_key">>, "SMP_STATE_PAIR_REQ_RSP")
    [] state = "SMP_STATE_WAIT_CONFIRM" /\ event = "SMP_CONFIRM_EVT" ->
         SmEntry(<<"smp_proc_confirm", "smp_send_confirm">>, "SMP_STATE_CONFIRM")
    [] state = "SMP_STATE_WAIT_CONFIRM" /\ event = "SMP_KEY_READY_EVT" ->
         SmEntry(<<"smp_proc_sl_key">>, "SMP_STATE_WAIT_CONFIRM")
    [] state = "SMP_STATE_CONFIRM" /\ event = "SMP_RAND_EVT" ->
         SmEntry(<<"smp_proc_rand", "smp_generate_compare">>, "SMP_STATE_RAND")
    [] state = "SMP_STATE_CONFIRM" /\ event = "SMP_KEY_READY_EVT" ->
         SmEntry(<<"smp_proc_sl_key">>, "SMP_STATE_CONFIRM")
    [] state = "SMP_STATE_RAND" /\ event = "SMP_KEY_READY_EVT" ->
         SmEntry(<<"smp_proc_compare">>, "SMP_STATE_RAND")
    [] state = "SMP_STATE_RAND" /\ event = "SMP_RAND_EVT" ->
         SmEntry(<<"smp_send_rand">>, "SMP_STATE_ENCRYPTION_PENDING")
    [] state = "SMP_STATE_ENCRYPTION_PENDING" /\ event = "SMP_ENC_REQ_EVT" ->
         SmEntry(<<"smp_generate_stk">>, "SMP_STATE_ENCRYPTION_PENDING")
    [] state = "SMP_STATE_ENCRYPTION_PENDING" /\ event = "SMP_KEY_READY_EVT" ->
         SmEntry(<<"smp_send_ltk_reply">>, "SMP_STATE_ENCRYPTION_PENDING")
    [] state = "SMP_STATE_ENCRYPTION_PENDING" /\ event = "SMP_ENCRYPTED_EVT" ->
         SmEntry(<<"smp_check_auth_req">>, "SMP_STATE_ENCRYPTION_PENDING")
    [] state = "SMP_STATE_ENCRYPTION_PENDING" /\ event = "SMP_BOND_REQ_EVT" ->
         SmEntry(<<"smp_key_distribution">>, "SMP_STATE_BOND_PENDING")
    [] state = "SMP_STATE_BOND_PENDING" /\ event = "SMP_ENCRPTION_INFO_EVT" ->
         SmEntry(<<"smp_proc_enc_info">>, "SMP_STATE_BOND_PENDING")
    [] state = "SMP_STATE_BOND_PENDING" /\ event = "SMP_MASTER_ID_EVT" ->
         SmEntry(<<"smp_proc_master_id">>, "SMP_STATE_BOND_PENDING")
    [] state = "SMP_STATE_BOND_PENDING" /\ event = "SMP_ID_INFO_EVT" ->
         SmEntry(<<"smp_proc_id_info">>, "SMP_STATE_BOND_PENDING")
    [] state = "SMP_STATE_BOND_PENDING" /\ event = "SMP_ID_ADDR_EVT" ->
         SmEntry(<<"smp_proc_id_addr">>, "SMP_STATE_BOND_PENDING")
    [] state = "SMP_STATE_BOND_PENDING" /\ event = "SMP_SIGN_INFO_EVT" ->
         SmEntry(<<"smp_proc_srk_info">>, "SMP_STATE_BOND_PENDING")
    [] state = "SMP_STATE_BOND_PENDING" /\ event = "SMP_KEY_READY_EVT" ->
         SmEntry(<<"smp_send_enc_info">>, "SMP_STATE_BOND_PENDING")
    [] state = "SMP_STATE_WAIT_APP_RSP" /\ event = "SMP_PAIR_DHKEY_CHCK_EVT" ->
         SmEntry(<<"smp_process_dhkey_check">>,
                 "SMP_STATE_WAIT_APP_RSP")
    [] state = "SMP_STATE_WAIT_APP_RSP" /\ event = "SMP_SC_NC_OK_EVT" ->
         SmEntry(<<"smp_move_to_secure_connections_phase2">>,
                 "SMP_STATE_SEC_CONN_PHS2_START")
    [] state = "SMP_STATE_WAIT_APP_RSP" /\ event = "SMP_SC_KEY_READY_EVT" ->
         SmEntry(<<"smp_start_passkey_verification">>,
                 "SMP_STATE_SEC_CONN_PHS1_START")
    [] state = "SMP_STATE_WAIT_APP_RSP" /\ event = "SMP_PAIR_COMMITM_EVT" ->
         SmEntry(<<"smp_process_pairing_commitment">>,
                 "SMP_STATE_WAIT_APP_RSP")
    [] state = "SMP_STATE_WAIT_APP_RSP" /\ event = "SMP_PAIR_KEYPR_NOTIF_EVT" ->
         SmEntry(<<"smp_process_keypress_notification", "smp_send_app_cback">>,
                 "SMP_STATE_WAIT_APP_RSP")
    [] state = "SMP_STATE_PAIR_REQ_RSP" /\ event = "SMP_PUBL_KEY_EXCH_REQ_EVT" ->
         SmEntry(<<"smp_create_private_key">>,
                 "SMP_STATE_PUBLIC_KEY_EXCH")
    [] state = "SMP_STATE_PUBLIC_KEY_EXCH" /\ event = "SMP_LOC_PUBL_KEY_CRTD_EVT" ->
         SmEntry(<<"smp_wait_for_both_public_keys">>,
                 "SMP_STATE_PUBLIC_KEY_EXCH")
    [] state = "SMP_STATE_PUBLIC_KEY_EXCH" /\ event = "SMP_PAIR_PUBLIC_KEY_EVT" ->
         SmEntry(<<"smp_process_pairing_public_key">>,
                 "SMP_STATE_PUBLIC_KEY_EXCH")
    [] state = "SMP_STATE_PUBLIC_KEY_EXCH" /\ event = "SMP_BOTH_PUBL_KEYS_RCVD_EVT" ->
         SmEntry(<<"smp_both_have_public_keys">>,
                 "SMP_STATE_SEC_CONN_PHS1_START")
    [] state = "SMP_STATE_SEC_CONN_PHS1_START" /\ event = "SMP_SC_DHKEY_CMPLT_EVT" ->
         SmEntry(<<"smp_start_secure_connection_phase1">>,
                 "SMP_STATE_SEC_CONN_PHS1_START")
    [] state = "SMP_STATE_SEC_CONN_PHS1_START" /\ event = "SMP_HAVE_LOC_NONCE_EVT" ->
         SmEntry(<<"smp_process_local_nonce">>,
                 "SMP_STATE_WAIT_COMMITMENT")
    [] state = "SMP_STATE_SEC_CONN_PHS1_START" /\ event = "SMP_TK_REQ_EVT" ->
         SmEntry(<<"smp_send_app_cback">>,
                 "SMP_STATE_WAIT_APP_RSP")
    [] state = "SMP_STATE_SEC_CONN_PHS1_START" /\ event = "SMP_KEY_READY_EVT" ->
         SmEntry(<<"smp_start_passkey_verification">>,
                 "SMP_STATE_SEC_CONN_PHS1_START")
    [] state = "SMP_STATE_SEC_CONN_PHS1_START" /\ event = "SMP_PAIR_KEYPR_NOTIF_EVT" ->
         SmEntry(<<"smp_process_keypress_notification", "smp_send_app_cback">>,
                 "SMP_STATE_SEC_CONN_PHS1_START")
    [] state = "SMP_STATE_SEC_CONN_PHS1_START" /\ event = "SMP_PAIR_COMMITM_EVT" ->
         SmEntry(<<"smp_process_pairing_commitment">>,
                 "SMP_STATE_SEC_CONN_PHS1_START")
    [] state = "SMP_STATE_WAIT_COMMITMENT" /\ event = "SMP_PAIR_COMMITM_EVT" ->
         SmEntry(<<"smp_process_pairing_commitment", "smp_send_commitment">>,
                 "SMP_STATE_WAIT_NONCE")
    [] state = "SMP_STATE_WAIT_COMMITMENT" /\ event = "SMP_PAIR_KEYPR_NOTIF_EVT" ->
         SmEntry(<<"smp_process_keypress_notification", "smp_send_app_cback">>,
                 "SMP_STATE_WAIT_COMMITMENT")
    [] state = "SMP_STATE_WAIT_NONCE" /\ event = "SMP_RAND_EVT" ->
         SmEntry(<<"smp_proc_rand", "smp_process_peer_nonce">>,
                 "SMP_STATE_SEC_CONN_PHS2_START")
    [] state = "SMP_STATE_WAIT_NONCE" /\ event = "SMP_SC_CALC_NC_EVT" ->
         SmEntry(<<"smp_calculate_numeric_comparison_display_number">>,
                 "SMP_STATE_WAIT_NONCE")
    [] state = "SMP_STATE_SEC_CONN_PHS2_START" /\ event = "SMP_SC_PHASE1_CMPLT_EVT" ->
         SmEntry(<<"smp_calculate_local_dhkey_check", "smp_phase_2_dhkey_checks_are_present">>,
                 "SMP_STATE_WAIT_DHK_CHECK")
    [] state = "SMP_STATE_SEC_CONN_PHS2_START" /\ event = "SMP_PAIR_DHKEY_CHCK_EVT" ->
         SmEntry(<<"smp_process_dhkey_check">>,
                 "SMP_STATE_SEC_CONN_PHS2_START")
    [] state = "SMP_STATE_WAIT_DHK_CHECK" /\ event = "SMP_PAIR_DHKEY_CHCK_EVT" ->
         SmEntry(<<"smp_process_dhkey_check", "smp_calculate_peer_dhkey_check">>,
                 "SMP_STATE_DHK_CHECK")
    [] state = "SMP_STATE_WAIT_DHK_CHECK" /\ event = "SMP_SC_2_DHCK_CHKS_PRES_EVT" ->
         SmEntry(<<"smp_calculate_peer_dhkey_check">>,
                 "SMP_STATE_DHK_CHECK")
    [] state = "SMP_STATE_DHK_CHECK" /\ event = "SMP_SC_KEY_READY_EVT" ->
         SmEntry(<<"smp_match_dhkey_checks">>,
                 "SMP_STATE_DHK_CHECK")
    [] state = "SMP_STATE_DHK_CHECK" /\ event = "SMP_PAIR_DHKEY_CHCK_EVT" ->
         SmEntry(<<"smp_send_dhkey_check">>,
                 "SMP_STATE_ENCRYPTION_PENDING")
    [] OTHER -> SMP_SM_IGNORE

\* the lookup of smp_sm_event: the entry of the event in the table of the
\* current state and role, the table of all states where the state has none
smp_state_table(role, state, event) ==
  IF state # "SMP_STATE_IDLE" /\ smp_all_table(event) # SMP_SM_IGNORE
    THEN smp_all_table(event)
  ELSE IF role = HCI_ROLE_MASTER THEN smp_master_table(state, event)
  ELSE smp_slave_table(state, event)

\* smp_sm_event: an event without an entry is dropped; otherwise the state
\* is set to the entry's next state and then its action functions run in
\* order, all with the event's data. m.evts keeps the events raised for
\* the input, each with its status, the length of the PDU handled and the
\* state and key masks found
smp_sm_event(m, event, p_data) ==
  LET entry == smp_state_table(m.cb.role, m.cb.state, event)
  IN [m EXCEPT
        !.evts = Append(@, [n |-> event, status |-> p_data.status,
                            state |-> m.cb.state,
                            rcvd_cmd_len |-> m.cb.rcvd_cmd_len,
                            local_i_key |-> m.cb.local_i_key,
                            local_r_key |-> m.cb.local_r_key]),
        !.cb.state = IF entry = SMP_SM_IGNORE THEN @ ELSE entry.s,
        !.todo = [i \in 1..Len(entry.a) |-> SmAct(entry.a[i], p_data)] \o @]

(***************************************************************************)
(* The action functions of smp_act.cc. Each takes the engine m with the    *)
(* call itself already taken off m.todo and the data of the event, and     *)
(* gives the engine after the call.                                        *)
(***************************************************************************)
Status(status) == [status |-> status]

\* the data of SMP_KEY_READY_EVT
Key(key_type, value) ==
  [status |-> SMP_SUCCESS, key_type |-> key_type, p_data |-> value]

\* smp_send_app_cback, SMP_IO_CAP_REQ_EVT answered with SMP_SUCCESS: the
\* application's values are taken over, without bonding no key is exchanged
smp_send_app_cback_io_req(cb, rsp) ==
  [cb EXCEPT !.loc_auth_req = rsp.auth_req,
             !.local_io_capability = rsp.io_cap,
             !.loc_oob_flag = rsp.oob_data,
             !.loc_enc_size = rsp.max_key_size,
             !.local_i_key = IF SMP_AUTH_BOND \in rsp.auth_req
                               THEN rsp.init_keys ELSE {},
             !.local_r_key = IF SMP_AUTH_BOND \in rsp.auth_req
                               THEN rsp.resp_keys ELSE {}]

\* smp_send_app_cback, the Secure Connections part of SMP_IO_CAP_REQ_EVT:
\* the SC bit is forced in SC-only mode; it is dropped, with the keypress
\* bit and the link key, when the application did not set it or the link
\* cannot do Secure Connections (lmp_version_below 4.2, interop_match_addr)
smp_send_app_cback_sc(cb, sc_only, no_sc, below_5_0) ==
  [cb EXCEPT
     !.secure_connections_only_mode_required = sc_only,
     !.loc_auth_req =
        (IF sc_only THEN @ \cup {SMP_SC_SUPPORT_BIT}
         ELSE IF SMP_SC_SUPPORT_BIT \notin @ \/ no_sc
           THEN @ \ {SMP_SC_SUPPORT_BIT, SMP_KP_SUPPORT_BIT}
         ELSE @) \ (IF below_5_0 THEN {SMP_H7_SUPPORT_BIT} ELSE {}),
     !.local_i_key =
        IF ~sc_only /\ (SMP_SC_SUPPORT_BIT \notin cb.loc_auth_req \/ no_sc)
          THEN @ \ {SMP_SEC_KEY_TYPE_LK} ELSE @,
     !.local_r_key =
        IF ~sc_only /\ (SMP_SC_SUPPORT_BIT \notin cb.loc_auth_req \/ no_sc)
          THEN @ \ {SMP_SEC_KEY_TYPE_LK} ELSE @]

\* smp_send_app_cback: the application is called with cb_evt; rsp is its
\* answer. When there is nothing to ask and a security request is to be
\* discarded, SMP_DISCARD_SEC_REQ_EVT is raised
smp_send_app_cback(m, p_data, rsp) ==
  IF m.cb.cb_evt = "NONE"
    THEN IF m.cb.discard_sec_req
           THEN Raise([m EXCEPT !.cb.discard_sec_req = FALSE],
                      "SMP_DISCARD_SEC_REQ_EVT", NoData)
           ELSE m
  ELSE IF m.cb.cb_evt = "SMP_IO_CAP_REQ_EVT" /\ rsp.rc = SMP_SUCCESS
    THEN Raise([m EXCEPT !.cb =
                   smp_send_app_cback_sc(smp_send_app_cback_io_req(@, rsp),
                                         m.security_mode_sc, rsp.no_sc,
                                         rsp.lmp_below_5_0),
                         !.app = <<rsp.init_keys, rsp.resp_keys>>],
               "SMP_IO_RSP_EVT", NoData)
  ELSE m

\* a Pairing Failed sent for every status but success
smp_send_pair_fail_any_status(m, p_data) ==
  IF p_data.status # SMP_SUCCESS
    THEN [smp_send_cmd(m, SMP_OPCODE_PAIRING_FAILED) EXCEPT
            !.cb.status = p_data.status,
            !.cb.failure = p_data.status,
            !.cb.wait_for_authorization_complete = TRUE]
    ELSE [m EXCEPT !.cb.status = p_data.status,
                   !.cb.failure = p_data.status]

\* smp_send_pair_fail: the status is recorded; Pairing Failed is sent only
\* for a reason of the Core Specification
smp_send_pair_fail(m, p_data) ==
  IF p_data.status <= SMP_MAX_FAIL_RSN_PER_SPEC /\ p_data.status # SMP_SUCCESS
    THEN [smp_send_cmd(m, SMP_OPCODE_PAIRING_FAILED) EXCEPT
            !.cb.status = p_data.status,
            !.cb.failure = p_data.status,
            !.cb.wait_for_authorization_complete = TRUE]
    ELSE [m EXCEPT !.cb.status = p_data.status,
                   !.cb.failure = p_data.status]

smp_send_pair_req(m, p_data) == smp_send_cmd(m, SMP_OPCODE_PAIRING_REQ)

\* smp_generate_passkey and smp_proc_passkey: the passkey is shown by the
\* application and becomes the TK
smp_generate_passkey(m) ==
  Raise([m EXCEPT !.cb.cb_evt = "SMP_PASSKEY_NOTIF_EVT"],
        "SMP_KEY_READY_EVT", Key("SMP_KEY_TYPE_TK", 0))

\* smp_decide_association_model: the first step of the selected model
smp_decide_association_model(m) ==
  CASE m.cb.selected_association_model = "SMP_MODEL_ENCRYPTION_ONLY" ->
         IF /\ m.cb.role = HCI_ROLE_MASTER
            /\ SMP_AUTH_YN_BIT \in m.cb.peer_auth_req
            /\ SMP_AUTH_YN_BIT \notin m.cb.loc_auth_req
           THEN Raise(m, "SMP_AUTH_CMPL_EVT", Status(SMP_PAIR_AUTH_FAIL))
         ELSE IF m.cb.local_io_capability \in {SMP_IO_CAP_IO, SMP_IO_CAP_KBDISP}
           THEN Raise([m EXCEPT !.cb.cb_evt = "SMP_CONSENT_REQ_EVT",
                                !.cb.state = "SMP_STATE_WAIT_NONCE"],
                      "SMP_SC_DSPL_NC_EVT", NoData)
         ELSE Raise([m EXCEPT !.cb.sec_level = SMP_SEC_UNAUTHENTICATE],
                    "SMP_KEY_READY_EVT",
                    Key("SMP_KEY_TYPE_TK", 0))
    [] m.cb.selected_association_model = "SMP_MODEL_PASSKEY" ->
         Raise([m EXCEPT !.cb.sec_level = SMP_SEC_AUTHENTICATED,
                         !.cb.cb_evt = "SMP_PASSKEY_REQ_EVT"],
               "SMP_TK_REQ_EVT", NoData)
    [] m.cb.selected_association_model = "SMP_MODEL_OOB" ->
         Raise([m EXCEPT !.cb.sec_level = SMP_SEC_AUTHENTICATED,
                         !.cb.cb_evt = "SMP_OOB_REQ_EVT"],
               "SMP_TK_REQ_EVT", NoData)
    [] m.cb.selected_association_model = "SMP_MODEL_KEY_NOTIF" ->
         smp_generate_passkey([m EXCEPT !.cb.sec_level = SMP_SEC_AUTHENTICATED])
    [] m.cb.selected_association_model \in
         {"SMP_MODEL_SEC_CONN_JUSTWORKS", "SMP_MODEL_SEC_CONN_NUM_COMP",
          "SMP_MODEL_SEC_CONN_PASSKEY_ENT", "SMP_MODEL_SEC_CONN_PASSKEY_DISP",
          "SMP_MODEL_SEC_CONN_OOB"} ->
         Raise(m, "SMP_PUBL_KEY_EXCH_REQ_EVT", NoData)
    [] OTHER -> Raise(m, "SMP_AUTH_CMPL_EVT", Status(SMP_UNKNOWN_IO_CAP))


\* the policy gate after the selection of the association model
ScOnlyRefuses(cb) ==
  /\ cb.secure_connections_only_mode_required
  /\ \/ ~cb.le_secure_connections_mode_is_used
     \/ cb.selected_association_model = "SMP_MODEL_SEC_CONN_JUSTWORKS"

\* smp_send_pair_rsp: only the keys both sides named are distributed; after
\* the Pairing Response the model starts (OOB data are outside the model)
smp_send_pair_rsp(m) ==
  IF m.cb.selected_association_model = "SMP_MODEL_SEC_CONN_OOB"
    THEN [smp_send_cmd(m, SMP_OPCODE_PAIRING_RSP) EXCEPT
            !.cb.local_i_key = @ \cap m.cb.peer_i_key,
            !.cb.local_r_key = @ \cap m.cb.peer_r_key]
    ELSE smp_decide_association_model(
           [smp_send_cmd(m, SMP_OPCODE_PAIRING_RSP) EXCEPT
              !.cb.local_i_key = @ \cap m.cb.peer_i_key,
              !.cb.local_r_key = @ \cap m.cb.peer_r_key])

\* smp_proc_sec_req: a Security Request of the slave; sec_req_act is the
\* answer of btm_ble_link_sec_check (encrypt with the keys there are, pair,
\* or discard the request)
smp_proc_sec_req(m, p_data, sec_req_act) ==
  IF smp_command_has_invalid_length(m.cb)
    THEN Raise(m, "SMP_AUTH_CMPL_EVT", Status(SMP_INVALID_PARAMETERS))
  ELSE IF sec_req_act = "BTM_BLE_SEC_REQ_ACT_ENCRYPT"
    THEN Raise([m EXCEPT !.cb.cb_evt = "NONE"], "SMP_ENC_REQ_EVT", NoData)
  ELSE IF sec_req_act = "BTM_BLE_SEC_REQ_ACT_PAIR"
    THEN IF m.security_mode_sc /\ SMP_SC_SUPPORT_BIT \notin p_data.auth_req
           THEN Raise([m EXCEPT
                         !.cb.cb_evt = "NONE",
                         !.cb.secure_connections_only_mode_required = TRUE],
                      "SMP_AUTH_CMPL_EVT", Status(SMP_PAIR_AUTH_FAIL))
           ELSE [m EXCEPT
                   !.cb.secure_connections_only_mode_required =
                      m.security_mode_sc,
                   !.cb.peer_auth_req = p_data.auth_req,
                   !.cb.local_r_key = SMP_SEC_DEFAULT_KEY,
                   !.cb.local_i_key = SMP_SEC_DEFAULT_KEY,
                   !.cb.cb_evt = "SMP_SEC_REQUEST_EVT"]
  ELSE IF sec_req_act = "BTM_BLE_SEC_REQ_ACT_DISCARD"
    THEN [m EXCEPT !.cb.cb_evt = "NONE", !.cb.discard_sec_req = TRUE]
  ELSE [m EXCEPT !.cb.cb_evt = "NONE"]

\* smp_proc_sec_grant: the application's answer to SMP_SEC_REQUEST_EVT
smp_proc_sec_grant(m, p_data) ==
  IF p_data.status # SMP_SUCCESS
    THEN Raise(m, "SMP_AUTH_CMPL_EVT", p_data)
    ELSE [m EXCEPT !.cb.cb_evt = "SMP_IO_CAP_REQ_EVT"]

\* a handler that takes the reason of the peer whatever the length
smp_proc_pair_fail_any_length(m, p_data) ==
  [m EXCEPT !.cb.status = p_data.status,
            !.cb.delayed_auth_timer_ent = FALSE]

\* smp_proc_pair_fail: Pairing Failed from the peer; nothing is sent
smp_proc_pair_fail(m, p_data) ==
  [m EXCEPT !.cb.status = IF m.cb.rcvd_cmd_len < 2
                            THEN SMP_INVALID_PARAMETERS ELSE p_data.status,
            !.cb.delayed_auth_timer_ent = FALSE]

\* smp_proc_pair_cmd, after the fields of the PDU were found valid: the
\* slave asks the application when the peer started, and otherwise each
\* side selects the model, applies the policy gate and starts the model
smp_proc_pair_cmd_valid(m) ==
  IF m.cb.role = HCI_ROLE_SLAVE
       /\ "SMP_PAIR_FLAGS_WE_STARTED_DD" \notin m.cb.flags
    THEN [m EXCEPT !.cb.local_i_key = m.cb.peer_i_key,
                   !.cb.local_r_key = m.cb.peer_r_key,
                   !.cb.cb_evt = "SMP_SEC_REQUEST_EVT"]
  ELSE IF ScOnlyRefuses(m.cb)
    THEN Raise(m, "SMP_AUTH_CMPL_EVT", Status(SMP_PAIR_AUTH_FAIL))
  ELSE IF m.cb.selected_association_model = "SMP_MODEL_SEC_CONN_OOB"
    THEN m
  ELSE IF m.cb.role = HCI_ROLE_SLAVE THEN smp_send_pair_rsp(m)
  ELSE smp_decide_association_model(m)

\* smp_proc_pair_cmd, the selection: a slave that started the pairing with
\* a Security Request first keeps only the keys the request names too
smp_proc_pair_cmd_select(m) ==
  IF m.cb.role = HCI_ROLE_SLAVE
       /\ "SMP_PAIR_FLAGS_WE_STARTED_DD" \notin m.cb.flags
    THEN smp_proc_pair_cmd_valid(m)
  ELSE IF m.cb.role = HCI_ROLE_SLAVE
    THEN smp_proc_pair_cmd_valid(
           [m EXCEPT !.cb = smp_select_association_model(
                      [@ EXCEPT !.local_i_key = @ \cap m.cb.peer_i_key,
                                !.local_r_key = @ \cap m.cb.peer_r_key])])
  ELSE smp_proc_pair_cmd_valid(
         [m EXCEPT !.cb = smp_select_association_model(@)])

\* smp_proc_pair_cmd, the fields of the PDU copied to the block
smp_proc_pair_cmd_fields(m, p_data) ==
  [m EXCEPT !.cb.peer_io_caps = p_data.io_cap,
            !.cb.peer_oob_flag = p_data.oob_data,
            !.cb.peer_auth_req = p_data.auth_req,
            !.cb.peer_enc_size = p_data.max_key_size,
            !.cb.peer_i_key = p_data.init_keys,
            !.cb.peer_r_key = p_data.resp_keys]

\* smp_proc_pair_cmd: a Pairing Request (slave) or Pairing Response (master)
smp_proc_pair_cmd(m, p_data) ==
  IF smp_command_has_invalid_length(m.cb)
    THEN Raise([m EXCEPT !.cb.flags = @ \cup {"SMP_PAIR_FLAG_ENC_AFTER_PAIR"}],
               "SMP_AUTH_CMPL_EVT", Status(SMP_INVALID_PARAMETERS))
  ELSE IF smp_command_has_invalid_parameters(
            smp_proc_pair_cmd_fields(m, p_data).cb)
    THEN Raise([smp_proc_pair_cmd_fields(m, p_data) EXCEPT
                  !.cb.flags = @ \cup {"SMP_PAIR_FLAG_ENC_AFTER_PAIR"}],
               "SMP_AUTH_CMPL_EVT", Status(SMP_INVALID_PARAMETERS))
  ELSE smp_proc_pair_cmd_select(
         [smp_proc_pair_cmd_fields(m, p_data) EXCEPT
            !.cb.flags = @ \cup {"SMP_PAIR_FLAG_ENC_AFTER_PAIR"}])

\* smp_process_io_response: the slave's application has answered
smp_process_io_response_rsp(m) ==
  IF ScOnlyRefuses(m.cb)
    THEN Raise(m, "SMP_AUTH_CMPL_EVT", Status(SMP_PAIR_AUTH_FAIL))
    ELSE smp_send_pair_rsp(m)

smp_process_io_response(m, p_data) ==
  IF "SMP_PAIR_FLAGS_WE_STARTED_DD" \in m.cb.flags
    THEN [smp_send_cmd(m, SMP_OPCODE_SEC_REQ) EXCEPT
            !.cb.state = "SMP_STATE_SEC_REQ_PENDING"]
    ELSE smp_process_io_response_rsp(
           [m EXCEPT !.cb = smp_select_association_model(@)])

\* smp_pairing_cmpl: the pairing is completed only when no PDU waits for
\* its acknowledgement
smp_pairing_cmpl(m, p_data) ==
  IF m.cb.total_tx_unacked = 0 THEN smp_proc_pairing_cmpl(m) ELSE m

smp_pair_terminate(m, p_data) ==
  smp_proc_pairing_cmpl([m EXCEPT !.cb.status = SMP_CONN_TOUT])

smp_idle_terminate(m, p_data) ==
  IF "SMP_PAIR_FLAGS_WE_STARTED_DD" \in m.cb.flags
    THEN smp_proc_pairing_cmpl([m EXCEPT !.cb.status = SMP_FAIL])
    ELSE m

\* smp_proc_discard: smp_reset_control_value unless this side started
smp_proc_discard(m, p_data) ==
  IF "SMP_PAIR_FLAGS_WE_STARTED_DD" \notin m.cb.flags
    THEN [m EXCEPT !.cb = SmpZeroCb]
    ELSE m

\* smp_enc_cmpl: the link was encrypted with the keys there were
smp_enc_cmpl(m, p_data) ==
  Raise(m, "SMP_AUTH_CMPL_EVT",
        Status(IF p_data.status # 0 THEN SMP_SUCCESS ELSE SMP_ENC_FAIL))

(***************************************************************************)
(* Legacy phase 2. The values of the cryptographic toolbox are small       *)
(* numbers: a random value is 0 or 1 and the confirm value that commits to *)
(* it is smp_calculate_comfirm of it.                                       *)
(***************************************************************************)
\* is p_data the data of a PDU (not NULL)?
HasData(p_data) == "p_data" \in DOMAIN p_data

smp_calculate_comfirm(rand) == 1 - rand

\* smp_generate_srand_mrand_confirm (also smp_generate_confirm): the local
\* random value and the confirm value of it are made
smp_generate_srand_mrand_confirm(m, p_data) ==
  Raise(m, "SMP_KEY_READY_EVT", Key("SMP_KEY_TYPE_CFM", 0))

smp_send_confirm(m, p_data) ==
  [smp_send_cmd(m, SMP_OPCODE_CONFIRM) EXCEPT
     !.cb.flags = @ \cup {"SMP_PAIR_FLAGS_CMD_CONFIRM_SENT"}]

\* smp_proc_confirm: the confirm value of the peer is kept
smp_proc_confirm(m, p_data) ==
  IF smp_command_has_invalid_parameters(m.cb)
    THEN Raise(m, "SMP_AUTH_CMPL_EVT", Status(SMP_INVALID_PARAMETERS))
    ELSE [m EXCEPT !.cb.rconfirm = IF HasData(p_data) THEN p_data.p_data ELSE @,
                   !.cb.flags = @ \cup {"SMP_PAIR_FLAGS_CMD_CONFIRM"}]

\* smp_proc_rand (and smp_proc_init, the same text): in legacy pairing the
\* random value of the peer is taken only after the local confirm value
\* was sent
smp_proc_rand(m, p_data) ==
  IF smp_command_has_invalid_parameters(m.cb)
    THEN Raise(m, "SMP_AUTH_CMPL_EVT", Status(SMP_INVALID_PARAMETERS))
  ELSE IF /\ SMP_SC_SUPPORT_BIT \notin (m.cb.loc_auth_req \cap m.cb.peer_auth_req)
          /\ "SMP_PAIR_FLAGS_CMD_CONFIRM_SENT" \notin m.cb.flags
    THEN Raise(m, "SMP_AUTH_CMPL_EVT", Status(SMP_INVALID_PARAMETERS))
  ELSE [m EXCEPT !.cb.rrand = p_data.p_data]

\* smp_generate_compare: the confirm value the peer should have sent for
\* the random value it sent
smp_generate_compare(m, p_data) ==
  Raise(m, "SMP_KEY_READY_EVT",
        Key("SMP_KEY_TYPE_CMP", smp_calculate_comfirm(m.cb.rrand)))

\* smp_proc_compare: the peer's confirm value against the computed one
smp_proc_compare(m, p_data) ==
  IF m.cb.rconfirm = p_data.p_data
    THEN IF m.cb.role = HCI_ROLE_SLAVE
           THEN Raise([m EXCEPT !.cb.loc_enc_size =
                                   IF m.cb.peer_enc_size < @
                                     THEN m.cb.peer_enc_size ELSE @],
                      "SMP_RAND_EVT", NoData)
           ELSE Raise([m EXCEPT !.cb.loc_enc_size =
                                   IF m.cb.peer_enc_size < @
                                     THEN m.cb.peer_enc_size ELSE @,
                                !.cb.local_i_key = m.cb.peer_i_key,
                                !.cb.local_r_key = m.cb.peer_r_key],
                      "SMP_ENC_REQ_EVT", NoData)
    ELSE Raise([m EXCEPT !.cb.failure = SMP_CONFIRM_VALUE_ERR],
               "SMP_AUTH_CMPL_EVT", Status(SMP_CONFIRM_VALUE_ERR))

\* smp_proc_sl_key: the slave's TK or confirm value is ready
smp_proc_sl_key(m, p_data) ==
  IF p_data.key_type = "SMP_KEY_TYPE_TK"
    THEN smp_generate_srand_mrand_confirm(m, NoData)
  ELSE IF p_data.key_type = "SMP_KEY_TYPE_CFM"
    THEN IF "SMP_PAIR_FLAGS_CMD_CONFIRM" \in m.cb.flags
           THEN Raise([m EXCEPT !.cb.state = "SMP_STATE_WAIT_CONFIRM"],
                      "SMP_CONFIRM_EVT", NoData)
           ELSE [m EXCEPT !.cb.state = "SMP_STATE_WAIT_CONFIRM"]
  ELSE m

\* smp_generate_stk: the short term key of the two random values
smp_generate_stk(m, p_data) ==
  Raise(m, "SMP_KEY_READY_EVT", Key("SMP_KEY_TYPE_STK", 0))

\* smp_start_enc: the master asks the controller to encrypt the link;
\* started says whether btm_ble_start_encrypt took the request
smp_start_enc(m, p_data, started) ==
  IF started
    THEN [m EXCEPT !.enc = TRUE]
    ELSE Raise(m, "SMP_AUTH_CMPL_EVT", Status(SMP_ENC_FAIL))

\* smp_send_ltk_reply: the slave gives the STK to the controller
smp_send_ltk_reply(m, p_data) == [m EXCEPT !.enc = TRUE]

(***************************************************************************)
(* Phase 3: the distribution of the keys. A call that is not the last      *)
(* statement of its caller is put on m.todo before what the caller does    *)
(* after it.                                                               *)
(***************************************************************************)
Call(m, action) == [m EXCEPT !.todo = <<SmAct(action, NoData)>> \o @]

\* a key mask update by role and direction alone
smp_update_key_mask_by_role(m, key_type, recv) ==
  IF (m.cb.role = HCI_ROLE_SLAVE) = recv
    THEN [m EXCEPT !.cb.local_i_key = @ \ {key_type}]
    ELSE [m EXCEPT !.cb.local_r_key = @ \ {key_type}]

smp_update_key_mask(m, key_type, recv) ==
  IF /\ m.cb.le_secure_connections_mode_is_used \/ m.cb.smp_over_br
     /\ key_type \in {SMP_SEC_KEY_TYPE_ENC, SMP_SEC_KEY_TYPE_LK}
    THEN [m EXCEPT !.cb.local_i_key = @ \ {key_type},
                   !.cb.local_r_key = @ \ {key_type}]
  ELSE IF (m.cb.role = HCI_ROLE_SLAVE) = recv
    THEN [m EXCEPT !.cb.local_i_key = @ \ {key_type}]
    ELSE [m EXCEPT !.cb.local_r_key = @ \ {key_type}]

\* the keys of an encrypted link with the link key left in the masks of a
\* legacy pairing
smp_check_auth_req_keys_legacy_lk_kept(cb) ==
  LET lk == IF SMP_SEC_KEY_TYPE_LK \in (cb.local_i_key \cap cb.local_r_key)
              THEN {} ELSE {SMP_SEC_KEY_TYPE_LK}
  IN IF cb.le_secure_connections_mode_is_used
       THEN [cb EXCEPT
               !.local_i_key = (@ \cup {SMP_SEC_KEY_TYPE_ENC}) \ lk,
               !.local_r_key =
                  IF cb.role = HCI_ROLE_MASTER
                    THEN @ \cap {SMP_SEC_KEY_TYPE_ID, SMP_SEC_KEY_TYPE_CSRK}
                    ELSE (@ \cup {SMP_SEC_KEY_TYPE_ENC}) \ lk]
       ELSE cb

\* smp_check_auth_req, the keys of an encrypted link: in Secure Connections
\* the LTK is always saved, the link key derived only when both masks ask
\* for it, and the master expects only the identity and signing keys; in
\* legacy pairing no link key is derived
smp_check_auth_req_keys(cb) ==
  LET lk == IF SMP_SEC_KEY_TYPE_LK \in (cb.local_i_key \cap cb.local_r_key)
              THEN {} ELSE {SMP_SEC_KEY_TYPE_LK}
  IN IF cb.le_secure_connections_mode_is_used
       THEN [cb EXCEPT
               !.local_i_key = (@ \cup {SMP_SEC_KEY_TYPE_ENC}) \ lk,
               !.local_r_key =
                  IF cb.role = HCI_ROLE_MASTER
                    THEN @ \cap {SMP_SEC_KEY_TYPE_ID, SMP_SEC_KEY_TYPE_CSRK}
                    ELSE (@ \cup {SMP_SEC_KEY_TYPE_ENC}) \ lk]
       ELSE [cb EXCEPT !.local_i_key = @ \ {SMP_SEC_KEY_TYPE_LK},
                       !.local_r_key = @ \ {SMP_SEC_KEY_TYPE_LK}]

\* smp_check_auth_req, the link is encrypted: the keys are distributed
\* when there are any, otherwise the pairing has succeeded
smp_check_auth_req_bond(m) ==
  IF m.cb.local_i_key # {} \/ m.cb.local_r_key # {}
    THEN Raise(m, "SMP_BOND_REQ_EVT", NoData)
    ELSE Raise(m, "SMP_AUTH_CMPL_EVT", Status(SMP_SUCCESS))

\* smp_check_auth_req: the link is encrypted (status 1) or not (status 0)
smp_check_auth_req(m, p_data) ==
  IF p_data.status = 1
    THEN smp_check_auth_req_bond([m EXCEPT !.cb = smp_check_auth_req_keys(@)])
  ELSE IF p_data.status = 0
          /\ \/ "SMP_PAIR_FLAG_ENC_AFTER_PAIR" \in m.cb.flags
             \/ m.cb.role = HCI_ROLE_MASTER
    THEN Raise(m, "SMP_AUTH_CMPL_EVT", Status(SMP_ENC_FAIL))
  ELSE m

\* smp_distribute_act: the function that distributes the key of a bit
smp_distribute_act(key_type) ==
  CASE key_type = SMP_SEC_KEY_TYPE_ENC -> "smp_generate_ltk"
    [] key_type = SMP_SEC_KEY_TYPE_ID -> "smp_send_id_info"
    [] key_type = SMP_SEC_KEY_TYPE_CSRK -> "smp_generate_csrk"
    [] key_type = SMP_SEC_KEY_TYPE_LK -> "smp_set_derive_link_key"

\* a choice of the highest bit of the mask
smp_key_pick_key_highest(m, p_data) ==
  LET key_to_dist == IF m.cb.role = HCI_ROLE_SLAVE
                       THEN m.cb.local_r_key ELSE m.cb.local_i_key
     key == CHOOSE k \in key_to_dist : \A j \in key_to_dist : k >= j
  IN IF key_to_dist = {} THEN m
     ELSE Call([m EXCEPT !.dist = Append(@, key)], smp_distribute_act(key))

\* smp_key_pick_key: the lowest bit of the mask of the keys to send; dist
\* records the key types whose dispatcher the pairing has called
smp_key_pick_key(m, p_data) ==
  LET key_to_dist == IF m.cb.role = HCI_ROLE_SLAVE
                       THEN m.cb.local_r_key ELSE m.cb.local_i_key
     key == CHOOSE k \in key_to_dist : \A j \in key_to_dist : k <= j
  IN IF key_to_dist = {} THEN m
     ELSE Call([m EXCEPT !.dist = Append(@, key)], smp_distribute_act(key))

\* smp_key_distribution: the slave, and the master once it has all keys of
\* the slave, sends its next key; then the end of the distribution is
\* looked for
smp_key_distribution(m, p_data) ==
  IF m.cb.role = HCI_ROLE_SLAVE \/ m.cb.local_r_key = {}
    THEN smp_key_pick_key(Call(m, "smp_key_distribution_check"), p_data)
    ELSE Call(m, "smp_key_distribution_check")

\* an end of the distribution that starts no timer
smp_key_distribution_end_no_timer(m, p_data) ==
  IF m.cb.total_tx_unacked = 0
    THEN [m EXCEPT !.cb.derive_lk = FALSE]
    ELSE [m EXCEPT !.cb.derive_lk = FALSE,
                   !.cb.wait_for_authorization_complete = TRUE]

\* the end of smp_key_distribution: the acknowledgements of the PDUs sent
\* are awaited, or the timer is started that delays the success
smp_key_distribution_end(m, p_data) ==
  IF m.cb.total_tx_unacked = 0
    THEN [m EXCEPT !.cb.derive_lk = FALSE,
                   !.cb.delayed_auth_timer_ent = TRUE]
    ELSE [m EXCEPT !.cb.derive_lk = FALSE,
                   !.cb.wait_for_authorization_complete = TRUE]

\* smp_derive_link_key_from_long_term_key: derived says whether
\* smp_calculate_link_key_from_long_term_key succeeded
smp_derive_link_key_from_long_term_key(m, derived) ==
  IF derived THEN m
  ELSE Raise(m, "SMP_AUTH_CMPL_EVT", Status(SMP_PAIR_FAIL_UNKNOWN))

\* the bits of p_dev_rec->sec_flags that smp_key_distribution looks at
BTM_SEC_LE_LINK_KEY_AUTHED == "BTM_SEC_LE_LINK_KEY_AUTHED"
BTM_SEC_LINK_KEY_AUTHED == "BTM_SEC_LINK_KEY_AUTHED"
BTM_SEC_KEY_AUTHED == {BTM_SEC_LE_LINK_KEY_AUTHED, BTM_SEC_LINK_KEY_AUTHED}

\* the end of the distribution was reached with derive_lk set: lk_log
\* keeps, for the pairing, the flags found and whether
\* smp_derive_link_key_from_long_term_key was called
LkLogged(m, sec_flags, called) ==
  [m EXCEPT !.cb.lk_log = Append(@, [sec_flags |-> sec_flags,
                                     called |-> called])]

\* an end of the distribution that derives the link key whatever the
\* record of the device says
smp_key_distribution_check_no_policy(m, p_data, sec_flags, derived) ==
  IF /\ m.cb.local_i_key = {}
     /\ m.cb.local_r_key = {}
     /\ m.cb.state = "SMP_STATE_BOND_PENDING"
    THEN IF m.cb.derive_lk
           THEN smp_derive_link_key_from_long_term_key(
                  Call(LkLogged(m, sec_flags, TRUE), "smp_key_distribution_end"),
                  derived)
           ELSE smp_key_distribution_end(m, p_data)
    ELSE m

\* smp_key_distribution after smp_key_pick_key: with both masks empty in
\* BOND_PENDING the link key is derived when it was asked for, unless the
\* BR/EDR key of the device is authenticated and its LE key is not; then
\* derive_lk is reset and the end of the pairing prepared
smp_key_distribution_check(m, p_data, sec_flags, derived) ==
  IF /\ m.cb.local_i_key = {}
     /\ m.cb.local_r_key = {}
     /\ m.cb.state = "SMP_STATE_BOND_PENDING"
    THEN IF ~m.cb.derive_lk
           THEN smp_key_distribution_end(m, p_data)
         ELSE IF /\ BTM_SEC_LE_LINK_KEY_AUTHED \notin sec_flags
                 /\ BTM_SEC_LINK_KEY_AUTHED \in sec_flags
           THEN smp_key_distribution_end(LkLogged(m, sec_flags, FALSE), p_data)
         ELSE smp_derive_link_key_from_long_term_key(
                Call(LkLogged(m, sec_flags, TRUE), "smp_key_distribution_end"),
                derived)
    ELSE m

smp_key_distribution_by_transport(m, p_data) ==
  IF m.cb.smp_over_br
    THEN Call(m, "smp_br_select_next_key")
    ELSE Call(m, "smp_key_distribution")

smp_process_secure_connection_long_term_key(m) ==
  Call(smp_update_key_mask(m, SMP_SEC_KEY_TYPE_ENC, FALSE),
       "smp_key_distribution")

\* smp_generate_ltk: in Secure Connections the LTK is there already;
\* otherwise it is made and SMP_KEY_READY_EVT raised
smp_generate_ltk(m, p_data) ==
  IF m.cb.br_state = "SMP_BR_STATE_BOND_PENDING"
    THEN Call(m, "smp_br_process_link_key")
  ELSE IF m.cb.le_secure_connections_mode_is_used
    THEN smp_process_secure_connection_long_term_key(m)
  ELSE Raise(m, "SMP_KEY_READY_EVT", Key("SMP_KEY_TYPE_LTK", 0))

smp_send_enc_info(m, p_data) ==
  Call(smp_send_cmd(
         smp_send_cmd(smp_update_key_mask(m, SMP_SEC_KEY_TYPE_ENC, FALSE),
                      SMP_OPCODE_ENCRYPT_INFO),
         SMP_OPCODE_MASTER_ID),
       "smp_key_distribution")

\* an identity key sent with no return to the key distribution
smp_send_id_info_no_reentry(m, p_data) ==
  smp_send_cmd(
    smp_send_cmd(smp_update_key_mask(m, SMP_SEC_KEY_TYPE_ID, FALSE),
                 SMP_OPCODE_IDENTITY_INFO),
    SMP_OPCODE_ID_ADDR)

smp_send_id_info(m, p_data) ==
  Call(smp_send_cmd(
         smp_send_cmd(smp_update_key_mask(m, SMP_SEC_KEY_TYPE_ID, FALSE),
                      SMP_OPCODE_IDENTITY_INFO),
         SMP_OPCODE_ID_ADDR),
       "smp_key_distribution_by_transport")

smp_send_csrk_info(m, p_data) ==
  Call(smp_send_cmd(smp_update_key_mask(m, SMP_SEC_KEY_TYPE_CSRK, FALSE),
                    SMP_OPCODE_SIGN_INFO),
       "smp_key_distribution_by_transport")

\* smp_generate_csrk: the signing key is made and sent
smp_generate_csrk(m, p_data) == Call(m, "smp_send_csrk_info")

smp_set_derive_link_key(m, p_data) ==
  Call(smp_update_key_mask([m EXCEPT !.cb.derive_lk = TRUE],
                           SMP_SEC_KEY_TYPE_LK, FALSE),
       "smp_key_distribution")

(***************************************************************************)
(* The keys of the peer.                                                   *)
(***************************************************************************)
smp_proc_enc_info(m, p_data) ==
  IF smp_command_has_invalid_parameters(m.cb)
    THEN Raise(m, "SMP_AUTH_CMPL_EVT", Status(SMP_INVALID_PARAMETERS))
    ELSE Call(m, "smp_key_distribution")

\* smp_proc_master_id: a Master Identification shorter than 11 is dropped
smp_proc_master_id(m, p_data) ==
  IF m.cb.rcvd_cmd_len < 11
    THEN m
    ELSE Call(smp_update_key_mask(m, SMP_SEC_KEY_TYPE_ENC, TRUE),
              "smp_key_distribution")

smp_proc_id_info(m, p_data) ==
  IF smp_command_has_invalid_parameters(m.cb)
    THEN Raise(m, "SMP_AUTH_CMPL_EVT", Status(SMP_INVALID_PARAMETERS))
    ELSE Call(m, "smp_key_distribution_by_transport")

smp_proc_id_addr(m, p_data) ==
  IF smp_command_has_invalid_parameters(m.cb)
    THEN Raise(m, "SMP_AUTH_CMPL_EVT", Status(SMP_INVALID_PARAMETERS))
    ELSE Call(smp_update_key_mask(m, SMP_SEC_KEY_TYPE_ID, TRUE),
              "smp_key_distribution_by_transport")

\* smp_proc_srk_info: the signing key of the peer is saved
smp_proc_srk_info(m, p_data) ==
  IF smp_command_has_invalid_parameters(m.cb)
    THEN Raise(m, "SMP_AUTH_CMPL_EVT", Status(SMP_INVALID_PARAMETERS))
    ELSE Call(smp_update_key_mask(m, SMP_SEC_KEY_TYPE_CSRK, TRUE),
              "smp_key_distribution_by_transport")

(***************************************************************************)
(* Secure Connections. A public key is a point [x, y]; LocalPoint is the   *)
(* key the local device makes, CurvePoints are the points of the curve.    *)
(* A commitment to a nonce is smp_calculate_comfirm of it, as the legacy   *)
(* confirm value; the DHKey check the peer should send is 1. The           *)
(* controller delivers the random numbers of a private key and of a nonce  *)
(* later: smp.rnd holds the requests it still has to answer.               *)
(***************************************************************************)
LocalPoint == [x |-> 1, y |-> 1]
CurvePoints == {[x |-> 1, y |-> 1], [x |-> 1, y |-> 2], [x |-> 2, y |-> 1]}

\* a validation that takes every point
ECC_ValidatePoint_any(pt) == TRUE

ECC_ValidatePoint(pt) == pt \in CurvePoints

\* smp_create_private_key: the random numbers of the private key are asked
\* of the controller
smp_create_private_key(m) ==
  [m EXCEPT !.rnd = @ \cup {"smp_process_private_key"}]

\* smp_start_nonce_generation: the random numbers of the nonce are asked of
\* the controller
smp_start_nonce_generation(m) ==
  [m EXCEPT !.rnd = @ \cup {"smp_finish_nonce_generation"}]

\* smp_wait_for_both_public_keys (OOB data are outside the model)
smp_wait_for_both_public_keys(m) ==
  IF {"SMP_PAIR_FLAG_HAVE_PEER_PUBL_KEY",
      "SMP_PAIR_FLAG_HAVE_LOCAL_PUBL_KEY"} \subseteq m.cb.flags
    THEN Raise(m, "SMP_BOTH_PUBL_KEYS_RCVD_EVT", NoData)
    ELSE m

\* smp_process_pairing_public_key: the key of the peer is copied to the
\* block, then refused when its x is the x of the local key or when it is
\* not a point of the curve
smp_process_pairing_public_key(m, p_data) ==
  IF smp_command_has_invalid_parameters(m.cb)
    THEN Raise(m, "SMP_AUTH_CMPL_EVT", Status(SMP_INVALID_PARAMETERS))
  ELSE IF p_data.p_data.x = m.cb.loc_publ_key.x
    THEN Raise([m EXCEPT !.cb.peer_publ_key = p_data.p_data],
               "SMP_AUTH_CMPL_EVT", Status(SMP_PAIR_AUTH_FAIL))
  ELSE IF ~ECC_ValidatePoint(p_data.p_data)
    THEN Raise([m EXCEPT !.cb.peer_publ_key = p_data.p_data],
               "SMP_AUTH_CMPL_EVT", Status(SMP_PAIR_AUTH_FAIL))
  ELSE smp_wait_for_both_public_keys(
         [m EXCEPT !.cb.peer_publ_key = p_data.p_data,
                   !.cb.flags = @ \cup {"SMP_PAIR_FLAG_HAVE_PEER_PUBL_KEY"}])

\* smp_process_pairing_commitment
smp_process_pairing_commitment(m, p_data) ==
  IF smp_command_has_invalid_parameters(m.cb)
    THEN Raise(m, "SMP_AUTH_CMPL_EVT", Status(SMP_INVALID_PARAMETERS))
    ELSE [m EXCEPT !.cb.flags = @ \cup {"SMP_PAIR_FLAG_HAVE_PEER_COMM"},
                   !.cb.remote_commitment =
                      IF HasData(p_data) THEN p_data.p_data ELSE @]

\* smp_process_dhkey_check
smp_process_dhkey_check(m, p_data) ==
  IF smp_command_has_invalid_parameters(m.cb)
    THEN Raise(m, "SMP_AUTH_CMPL_EVT", Status(SMP_INVALID_PARAMETERS))
    ELSE [m EXCEPT !.cb.flags = @ \cup {"SMP_PAIR_FLAG_HAVE_PEER_DHK_CHK"},
                   !.cb.remote_dhkey_check =
                      IF HasData(p_data) THEN p_data.p_data ELSE @]

\* smp_process_keypress_notification: the status is taken before the
\* length is looked at; the notification itself goes to the application
smp_process_keypress_notification(m, p_data) ==
  IF smp_command_has_invalid_parameters(m.cb)
    THEN Raise([m EXCEPT !.cb.status = p_data.status],
               "SMP_AUTH_CMPL_EVT", Status(SMP_INVALID_PARAMETERS))
    ELSE [m EXCEPT !.cb.status = p_data.status,
                   !.cb.cb_evt = "SMP_PEER_KEYPR_NOT_EVT"]

\* smp_both_have_public_keys: smp_compute_dhkey takes the key of the peer,
\* the slave sends its own key
smp_both_have_public_keys(m) ==
  IF m.cb.role = HCI_ROLE_SLAVE
    THEN Raise([smp_send_cmd(m, SMP_OPCODE_PAIR_PUBLIC_KEY) EXCEPT
                  !.cb.dhkey = m.cb.peer_publ_key],
               "SMP_SC_DHKEY_CMPLT_EVT", NoData)
    ELSE Raise([m EXCEPT !.cb.dhkey = m.cb.peer_publ_key],
               "SMP_SC_DHKEY_CMPLT_EVT", NoData)

\* smp_start_secure_connection_phase1
smp_start_secure_connection_phase1(m) ==
  CASE m.cb.selected_association_model = "SMP_MODEL_SEC_CONN_JUSTWORKS" ->
         smp_start_nonce_generation(
           [m EXCEPT !.cb.sec_level = SMP_SEC_UNAUTHENTICATE])
    [] m.cb.selected_association_model = "SMP_MODEL_SEC_CONN_NUM_COMP" ->
         smp_start_nonce_generation(
           [m EXCEPT !.cb.sec_level = SMP_SEC_AUTHENTICATED])
    [] m.cb.selected_association_model = "SMP_MODEL_SEC_CONN_PASSKEY_ENT" ->
         Raise([m EXCEPT !.cb.sec_level = SMP_SEC_AUTHENTICATED,
                         !.cb.cb_evt = "SMP_PASSKEY_REQ_EVT"],
               "SMP_TK_REQ_EVT", NoData)
    [] m.cb.selected_association_model = "SMP_MODEL_SEC_CONN_PASSKEY_DISP" ->
         smp_generate_passkey([m EXCEPT !.cb.sec_level = SMP_SEC_AUTHENTICATED])
    [] OTHER -> [m EXCEPT !.cb.sec_level = SMP_SEC_AUTHENTICATED]

\* smp_start_passkey_verification
smp_start_passkey_verification(m) ==
  smp_start_nonce_generation([m EXCEPT !.cb.round = 0])

\* smp_process_local_nonce: the local nonce is there
smp_process_local_nonce(m) ==
  CASE m.cb.selected_association_model \in
         {"SMP_MODEL_SEC_CONN_JUSTWORKS", "SMP_MODEL_SEC_CONN_NUM_COMP"} ->
         IF m.cb.role = HCI_ROLE_SLAVE
           THEN [smp_send_cmd(m, SMP_OPCODE_PAIR_COMMITM) EXCEPT
                   !.cb.state = "SMP_STATE_WAIT_NONCE"]
         ELSE IF "SMP_PAIR_FLAG_HAVE_PEER_COMM" \in m.cb.flags
           THEN [smp_send_cmd(m, SMP_OPCODE_RAND) EXCEPT
                   !.cb.flags = @ \ {"SMP_PAIR_FLAG_HAVE_PEER_COMM"},
                   !.cb.state = "SMP_STATE_WAIT_NONCE"]
         ELSE m
    [] m.cb.selected_association_model \in
         {"SMP_MODEL_SEC_CONN_PASSKEY_ENT", "SMP_MODEL_SEC_CONN_PASSKEY_DISP"} ->
         IF m.cb.role = HCI_ROLE_MASTER
           THEN smp_send_cmd(m, SMP_OPCODE_PAIR_COMMITM)
         ELSE IF "SMP_PAIR_FLAG_HAVE_PEER_COMM" \in m.cb.flags
           THEN [smp_send_cmd(m, SMP_OPCODE_PAIR_COMMITM) EXCEPT
                   !.cb.state = "SMP_STATE_WAIT_NONCE"]
         ELSE m
    [] m.cb.selected_association_model = "SMP_MODEL_SEC_CONN_OOB" ->
         IF m.cb.role = HCI_ROLE_MASTER
           THEN [smp_send_cmd(m, SMP_OPCODE_RAND) EXCEPT
                   !.cb.state = "SMP_STATE_WAIT_NONCE"]
           ELSE [m EXCEPT !.cb.state = "SMP_STATE_WAIT_NONCE"]
    [] OTHER -> m

\* smp_check_commitment: the commitment of the peer against the one
\* computed of the nonce it sent
smp_check_commitment(cb) ==
  cb.remote_commitment = smp_calculate_comfirm(cb.rrand)

\* smp_process_peer_nonce, Just Works and Numeric Comparison: only the
\* master has a commitment to check, the slave answers with its nonce
smp_process_peer_nonce_nc(m) ==
  IF m.cb.role = HCI_ROLE_MASTER /\ ~smp_check_commitment(m.cb)
    THEN Raise([m EXCEPT !.cb.failure = SMP_CONFIRM_VALUE_ERR],
               "SMP_AUTH_CMPL_EVT", Status(SMP_CONFIRM_VALUE_ERR))
  ELSE IF m.cb.selected_association_model = "SMP_MODEL_SEC_CONN_NUM_COMP"
    THEN Raise([(IF m.cb.role = HCI_ROLE_MASTER
                   THEN m ELSE smp_send_cmd(m, SMP_OPCODE_RAND)) EXCEPT
                  !.cb.state = "SMP_STATE_WAIT_NONCE"],
               "SMP_SC_CALC_NC_EVT", NoData)
  ELSE IF m.cb.local_io_capability \in {SMP_IO_CAP_IO, SMP_IO_CAP_KBDISP}
    THEN Raise([(IF m.cb.role = HCI_ROLE_MASTER
                   THEN m ELSE smp_send_cmd(m, SMP_OPCODE_RAND)) EXCEPT
                  !.cb.cb_evt = "SMP_CONSENT_REQ_EVT",
                  !.cb.state = "SMP_STATE_WAIT_NONCE"],
               "SMP_SC_DSPL_NC_EVT", NoData)
  ELSE Raise(IF m.cb.role = HCI_ROLE_MASTER
               THEN m ELSE smp_send_cmd(m, SMP_OPCODE_RAND),
             "SMP_SC_PHASE1_CMPLT_EVT", NoData)

\* a passkey round that takes the nonce without looking at the commitment
smp_process_peer_nonce_passkey_unchecked(m) ==
  IF (m.cb.round + 1) % 256 < 20
    THEN smp_start_nonce_generation(
           [(IF m.cb.role = HCI_ROLE_SLAVE
               THEN smp_send_cmd(m, SMP_OPCODE_RAND) ELSE m) EXCEPT
              !.cb.round = (@ + 1) % 256,
              !.cb.state = "SMP_STATE_SEC_CONN_PHS1_START",
              !.cb.flags = @ \ {"SMP_PAIR_FLAG_HAVE_PEER_COMM"}])
  ELSE Raise([(IF m.cb.role = HCI_ROLE_SLAVE
                 THEN smp_send_cmd(m, SMP_OPCODE_RAND) ELSE m) EXCEPT
                !.cb.round = (@ + 1) % 256],
             "SMP_SC_PHASE1_CMPLT_EVT", NoData)

\* smp_process_peer_nonce, passkey entry: both sides check the commitment
\* of the round, unless the certification failure mode
\* SMP_NUMERIC_COMPAR_FAIL is set; after the twentieth round phase 1 is
\* complete
smp_process_peer_nonce_passkey(m) ==
  IF ~smp_check_commitment(m.cb) /\ m.cb.cert_failure # SMP_NUMERIC_COMPAR_FAIL
    THEN Raise([m EXCEPT !.cb.failure = SMP_CONFIRM_VALUE_ERR],
               "SMP_AUTH_CMPL_EVT", Status(SMP_CONFIRM_VALUE_ERR))
  ELSE IF (m.cb.round + 1) % 256 < 20
    THEN smp_start_nonce_generation(
           [(IF m.cb.role = HCI_ROLE_SLAVE
               THEN smp_send_cmd(m, SMP_OPCODE_RAND) ELSE m) EXCEPT
              !.cb.round = (@ + 1) % 256,
              !.cb.state = "SMP_STATE_SEC_CONN_PHS1_START",
              !.cb.flags = @ \ {"SMP_PAIR_FLAG_HAVE_PEER_COMM"}])
  ELSE Raise([(IF m.cb.role = HCI_ROLE_SLAVE
                 THEN smp_send_cmd(m, SMP_OPCODE_RAND) ELSE m) EXCEPT
                !.cb.round = (@ + 1) % 256],
             "SMP_SC_PHASE1_CMPLT_EVT", NoData)

\* smp_process_peer_nonce: the nonce of the peer was received. The two
\* certification failure modes come first
smp_process_peer_nonce(m) ==
  IF m.cb.cert_failure = SMP_CONFIRM_VALUE_ERR
    THEN Raise([m EXCEPT !.cb.failure = SMP_CONFIRM_VALUE_ERR],
               "SMP_AUTH_CMPL_EVT", Status(SMP_CONFIRM_VALUE_ERR))
  ELSE IF /\ m.cb.cert_failure = SMP_NUMERIC_COMPAR_FAIL
          /\ m.cb.selected_association_model = "SMP_MODEL_SEC_CONN_JUSTWORKS"
          /\ m.cb.role = HCI_ROLE_SLAVE
    THEN Raise([m EXCEPT !.cb.failure = SMP_NUMERIC_COMPAR_FAIL],
               "SMP_AUTH_CMPL_EVT", Status(SMP_NUMERIC_COMPAR_FAIL))
  ELSE
  CASE m.cb.selected_association_model \in
         {"SMP_MODEL_SEC_CONN_JUSTWORKS", "SMP_MODEL_SEC_CONN_NUM_COMP"} ->
         smp_process_peer_nonce_nc(m)
    [] m.cb.selected_association_model \in
         {"SMP_MODEL_SEC_CONN_PASSKEY_ENT", "SMP_MODEL_SEC_CONN_PASSKEY_DISP"} ->
         smp_process_peer_nonce_passkey(m)
    [] m.cb.selected_association_model = "SMP_MODEL_SEC_CONN_OOB" ->
         Raise(IF m.cb.role = HCI_ROLE_SLAVE
                 THEN smp_send_cmd(m, SMP_OPCODE_RAND) ELSE m,
               "SMP_SC_PHASE1_CMPLT_EVT", NoData)
    [] OTHER -> m

\* smp_calculate_numeric_comparison_display_number: the number goes to the
\* application
smp_calculate_numeric_comparison_display_number(m) ==
  Raise([m EXCEPT !.cb.cb_evt = "SMP_NC_REQ_EVT"], "SMP_SC_DSPL_NC_EVT", NoData)

\* smp_calculate_peer_dhkey_check: the check value the peer should have sent
smp_calculate_peer_dhkey_check(m) ==
  Raise(m, "SMP_SC_KEY_READY_EVT", Key("SMP_KEY_TYPE_PEER_DHK_CHCK", 1))

\* a comparison that takes every check value of the peer
smp_match_dhkey_checks_any_value(m, p_data) ==
  IF m.cb.role = HCI_ROLE_SLAVE
    THEN Raise(m, "SMP_PAIR_DHKEY_CHCK_EVT", NoData)
    ELSE Raise([m EXCEPT !.cb.local_i_key = m.cb.peer_i_key,
                         !.cb.local_r_key = m.cb.peer_r_key],
               "SMP_ENC_REQ_EVT", NoData)

\* smp_match_dhkey_checks: the received check value against the computed
smp_match_dhkey_checks(m, p_data) ==
  IF p_data.p_data # m.cb.remote_dhkey_check
    THEN Raise([m EXCEPT !.cb.failure = SMP_DHKEY_CHK_FAIL],
               "SMP_AUTH_CMPL_EVT", Status(SMP_DHKEY_CHK_FAIL))
  ELSE IF m.cb.role = HCI_ROLE_SLAVE
    THEN Raise([m EXCEPT !.cb.loc_enc_size =
                            IF m.cb.peer_enc_size < @
                              THEN m.cb.peer_enc_size ELSE @],
               "SMP_PAIR_DHKEY_CHCK_EVT", NoData)
  ELSE Raise([m EXCEPT !.cb.loc_enc_size =
                          IF m.cb.peer_enc_size < @
                            THEN m.cb.peer_enc_size ELSE @,
                       !.cb.local_i_key = m.cb.peer_i_key,
                       !.cb.local_r_key = m.cb.peer_r_key],
             "SMP_ENC_REQ_EVT", NoData)

\* smp_phase_2_dhkey_checks_are_present
smp_phase_2_dhkey_checks_are_present(m) ==
  IF "SMP_PAIR_FLAG_HAVE_PEER_DHK_CHK" \in m.cb.flags
    THEN Raise(m, "SMP_SC_2_DHCK_CHKS_PRES_EVT", NoData)
    ELSE m

(***************************************************************************)
(* The inputs explored: what the local application answers to the IO       *)
(* capability request and what the peer puts in its PDUs. A run has one of *)
(* seven scopes, smp.scope, which says where its inputs vary: in the       *)
(* capabilities that select the association model, in the keys to          *)
(* distribute, in a second pairing after the first, in the PDUs of Secure  *)
(* Connections, in the rounds of passkey entry, in the association model   *)
(* of a second pairing, or in the mode (Secure Connections or legacy) of   *)
(* two pairings that ask for the link key.                                 *)
(***************************************************************************)
MaxPairings == 2     \* pairings started in a run of the scope "again"
PeerBda == 1         \* the address of the peer
MaxUnacked == 1      \* PDUs L2CAP has not sent yet when an input arrives

Scopes == {"model", "keys", "again", "sc", "passkey", "level", "derive"}

\* p_cb->cert_failure, which a certification test sets before the pairing:
\* no failure mode, or the one smp_process_peer_nonce reads in passkey entry
CertFailures == {SMP_SUCCESS, SMP_NUMERIC_COMPAR_FAIL}

Pairings(scope) ==
  IF scope \in {"again", "level", "derive"} THEN MaxPairings ELSE 1

LocalIoCaps(scope) ==
  IF scope = "model" THEN {SMP_IO_CAP_IO, SMP_IO_CAP_IN}
  ELSE IF scope = "sc" THEN {SMP_IO_CAP_IO, SMP_IO_CAP_NONE}
  ELSE IF scope = "passkey" THEN {SMP_IO_CAP_IN, SMP_IO_CAP_OUT}
  ELSE IF scope = "level" THEN {SMP_IO_CAP_IN, SMP_IO_CAP_IO}
  ELSE {SMP_IO_CAP_NONE}
PeerIoCaps(scope) ==
  IF scope = "model" THEN {SMP_IO_CAP_IO, SMP_IO_CAP_IN, SMP_IO_CAP_NONE}
  ELSE IF scope = "sc" THEN {SMP_IO_CAP_IO}
  ELSE IF scope = "passkey" THEN {SMP_IO_CAP_KBDISP}
  ELSE IF scope = "level" THEN {SMP_IO_CAP_IO}
  ELSE {SMP_IO_CAP_NONE}
LocalAuthReqs(scope) ==
  IF scope = "model"
    THEN {{SMP_AUTH_BOND, SMP_AUTH_YN_BIT, SMP_SC_SUPPORT_BIT},
          {SMP_AUTH_BOND, SMP_SC_SUPPORT_BIT},
          {SMP_AUTH_BOND, SMP_AUTH_YN_BIT},
          {}}
  ELSE IF scope = "keys"
    THEN {{SMP_AUTH_BOND, SMP_SC_SUPPORT_BIT}, {SMP_AUTH_BOND}}
  ELSE IF scope = "sc"
    THEN {{SMP_AUTH_BOND, SMP_AUTH_YN_BIT, SMP_SC_SUPPORT_BIT},
          {SMP_AUTH_BOND, SMP_SC_SUPPORT_BIT}}
  ELSE IF scope = "passkey"
    THEN {{SMP_AUTH_BOND, SMP_AUTH_YN_BIT, SMP_SC_SUPPORT_BIT}}
  ELSE IF scope = "level" THEN {{SMP_AUTH_BOND, SMP_AUTH_YN_BIT}}
  ELSE IF scope = "derive" THEN {{SMP_AUTH_BOND, SMP_SC_SUPPORT_BIT}}
  ELSE {{SMP_AUTH_BOND}}
PeerAuthReqs(scope) ==
  IF scope = "derive"
    THEN {{SMP_AUTH_BOND, SMP_SC_SUPPORT_BIT}, {SMP_AUTH_BOND}}
    ELSE LocalAuthReqs(scope)
LocalKeys(scope) ==
  IF scope = "keys"
    THEN {<<SMP_SEC_DEFAULT_KEY, SMP_SEC_DEFAULT_KEY>>,
          <<{SMP_SEC_KEY_TYPE_ENC}, {SMP_SEC_KEY_TYPE_ID, SMP_SEC_KEY_TYPE_CSRK}>>,
          <<{SMP_SEC_KEY_TYPE_CSRK}, {SMP_SEC_KEY_TYPE_ENC}>>}
  ELSE IF scope \in {"model", "sc", "passkey", "level"} THEN {<<{}, {}>>}
  ELSE IF scope = "derive"
    THEN {<<{SMP_SEC_KEY_TYPE_ID, SMP_SEC_KEY_TYPE_LK}, {SMP_SEC_KEY_TYPE_LK}>>}
  ELSE {<<{SMP_SEC_KEY_TYPE_ENC}, {SMP_SEC_KEY_TYPE_ENC}>>}
PeerKeys(scope) ==
  IF scope = "keys"
    THEN {<<SMP_SEC_DEFAULT_KEY, SMP_SEC_DEFAULT_KEY>>,
          <<{SMP_SEC_KEY_TYPE_ENC, SMP_SEC_KEY_TYPE_ID}, {SMP_SEC_KEY_TYPE_CSRK}>>}
  ELSE IF scope \in {"model", "sc", "passkey", "level"} THEN {<<{}, {}>>}
  ELSE IF scope = "derive"
    THEN {<<{SMP_SEC_KEY_TYPE_ID, SMP_SEC_KEY_TYPE_LK}, {SMP_SEC_KEY_TYPE_LK}>>}
  ELSE {<<{SMP_SEC_KEY_TYPE_ENC}, {SMP_SEC_KEY_TYPE_ENC}>>}

\* a Pairing Request or Pairing Response
PairPdu(cmd, len, io, oob, auth, enc, keys) ==
  [cmd |-> cmd, len |-> len,
   d |-> [status |-> SMP_SUCCESS, io_cap |-> io, oob_data |-> oob,
          auth_req |-> auth, max_key_size |-> enc,
          init_keys |-> keys[1], resp_keys |-> keys[2]]]

\* the Pairing Requests and Responses of the peer: well-formed ones, ones
\* of a wrong length, ones with a field out of range
SmpPairPdus(scope) ==
  UNION {
    {PairPdu(cmd, 7, io, SMP_OOB_NONE, auth, SMP_MAX_ENC_KEY_SIZE, keys) :
       io \in PeerIoCaps(scope), auth \in PeerAuthReqs(scope),
       keys \in PeerKeys(scope)}
    \cup {PairPdu(cmd, len, SMP_IO_CAP_IO, SMP_OOB_NONE, {},
                  SMP_MAX_ENC_KEY_SIZE, <<{}, {}>>) : len \in {6, 8}}
    \cup {PairPdu(cmd, 7, SMP_IO_CAP_KBDISP + 1, SMP_OOB_NONE, {},
                  SMP_MAX_ENC_KEY_SIZE, <<{}, {}>>),
          PairPdu(cmd, 7, SMP_IO_CAP_IO, SMP_OOB_PRESENT + 1, {},
                  SMP_MAX_ENC_KEY_SIZE, <<{}, {}>>),
          PairPdu(cmd, 7, SMP_IO_CAP_IO, SMP_OOB_NONE, {},
                  SMP_ENCR_KEY_SIZE_MIN - 1, <<{}, {}>>)} :
    cmd \in {SMP_OPCODE_PAIRING_REQ, SMP_OPCODE_PAIRING_RSP}}

SmpSecReqPdus(scope) ==
  {[cmd |-> SMP_OPCODE_SEC_REQ, len |-> len,
    d |-> [status |-> SMP_SUCCESS, auth_req |-> auth]] :
     len \in {1, 2, 3}, auth \in PeerAuthReqs(scope)}

SmpFailPdus ==
  {[cmd |-> SMP_OPCODE_PAIRING_FAILED, len |-> len, d |-> Status(reason)] :
     len \in {1, 2}, reason \in {SMP_PAIR_AUTH_FAIL, SMP_PAIR_FAIL_UNKNOWN}}

\* a PDU that carries a value
ValuePdu(cmd, len, value) ==
  [cmd |-> cmd, len |-> len, d |-> [status |-> SMP_SUCCESS, p_data |-> value]]

\* a PDU that carries the value 1, of the length of its opcode and more
AtSize(cmd, more) == ValuePdu(cmd, smp_cmd_size_per_spec[cmd] + more, 1)

\* the PDUs of the legacy phase 2: the confirm value 1, which commits to
\* the random value 0, and either random value; of the length of the
\* opcode, or one byte longer
SmpLegacyPdus(scope) ==
  IF scope = "level" THEN {}
  ELSE IF scope \in {"model", "keys", "derive"}
    THEN {AtSize(SMP_OPCODE_CONFIRM, 0),
          ValuePdu(SMP_OPCODE_RAND, smp_cmd_size_per_spec[SMP_OPCODE_RAND], 0)}
    ELSE (IF scope \in {"sc", "passkey"} THEN {}
          ELSE {AtSize(SMP_OPCODE_CONFIRM, 0), AtSize(SMP_OPCODE_CONFIRM, 1)})
         \cup {AtSize(SMP_OPCODE_RAND, 0), AtSize(SMP_OPCODE_RAND, 1),
               ValuePdu(SMP_OPCODE_RAND, smp_cmd_size_per_spec[SMP_OPCODE_RAND], 0)}

\* the keys the peer distributes, of the length of the opcode or one byte
\* longer, and the Master Identification also one byte shorter
SmpKeyPdus(scope) ==
  IF scope \in {"keys", "again"}
    THEN {AtSize(cmd, more) :
            cmd \in {SMP_OPCODE_ENCRYPT_INFO, SMP_OPCODE_MASTER_ID,
                     SMP_OPCODE_IDENTITY_INFO, SMP_OPCODE_ID_ADDR,
                     SMP_OPCODE_SIGN_INFO},
            more \in {0, 1}}
         \cup {AtSize(SMP_OPCODE_MASTER_ID, -1)}
  ELSE IF scope = "derive"
    THEN {AtSize(SMP_OPCODE_IDENTITY_INFO, 0), AtSize(SMP_OPCODE_ID_ADDR, 0)}
    ELSE {}

\* the PDUs of Secure Connections. Public keys: a point of the curve, a
\* point off the curve, the local key, the point of the same x, and a key
\* in a PDU one byte short. The commitment 1, either DHKey check value and
\* a keypress notification, of the length of the opcode or one byte longer
PeerPoints == CurvePoints \cup {[x |-> 2, y |-> 0]}
SmpScPdus(scope) ==
  IF scope \in {"keys", "derive"}
    THEN {AtSize(SMP_OPCODE_PAIR_COMMITM, 0), AtSize(SMP_OPCODE_PAIR_DHKEY_CHECK, 0),
          ValuePdu(SMP_OPCODE_PAIR_PUBLIC_KEY,
                   smp_cmd_size_per_spec[SMP_OPCODE_PAIR_PUBLIC_KEY],
                   [x |-> 2, y |-> 1])}
  ELSE IF scope = "passkey"
    THEN {AtSize(SMP_OPCODE_PAIR_COMMITM, 0),
          ValuePdu(SMP_OPCODE_PAIR_PUBLIC_KEY,
                   smp_cmd_size_per_spec[SMP_OPCODE_PAIR_PUBLIC_KEY],
                   [x |-> 2, y |-> 1])}
  ELSE IF scope = "sc"
    THEN {AtSize(cmd, more) :
            cmd \in {SMP_OPCODE_PAIR_COMMITM, SMP_OPCODE_PAIR_DHKEY_CHECK,
                     SMP_OPCODE_PAIR_KEYPR_NOTIF},
            more \in {0, 1}}
         \cup {ValuePdu(SMP_OPCODE_PAIR_DHKEY_CHECK,
                        smp_cmd_size_per_spec[SMP_OPCODE_PAIR_DHKEY_CHECK], 0)}
         \cup {ValuePdu(SMP_OPCODE_PAIR_PUBLIC_KEY,
                        smp_cmd_size_per_spec[SMP_OPCODE_PAIR_PUBLIC_KEY], pt) :
                 pt \in PeerPoints}
         \cup {ValuePdu(SMP_OPCODE_PAIR_PUBLIC_KEY,
                        smp_cmd_size_per_spec[SMP_OPCODE_PAIR_PUBLIC_KEY] - 1,
                        [x |-> 2, y |-> 1])}
  ELSE {}

SmpPdus(scope) ==
  SmpPairPdus(scope) \cup SmpSecReqPdus(scope) \cup SmpFailPdus
    \cup SmpLegacyPdus(scope) \cup SmpKeyPdus(scope) \cup SmpScPdus(scope)

(***************************************************************************)
(* The answers of the environment to one action function: what the         *)
(* application returns from its callback and what the security database    *)
(* says of a Security Request.                                             *)
(***************************************************************************)
NoRsp ==
  [rc |-> SMP_FAIL, io_cap |-> SMP_IO_CAP_NONE, auth_req |-> {},
   oob_data |-> SMP_OOB_NONE, max_key_size |-> SMP_MAX_ENC_KEY_SIZE,
   init_keys |-> {}, resp_keys |-> {}, no_sc |-> FALSE,
   lmp_below_5_0 |-> FALSE]

SmpIoRsp(scope) ==
  {[NoRsp EXCEPT !.rc = SMP_SUCCESS, !.io_cap = io, !.auth_req = auth,
                 !.init_keys = keys[1], !.resp_keys = keys[2],
                 !.no_sc = no_sc] :
     io \in LocalIoCaps(scope), auth \in LocalAuthReqs(scope),
     keys \in LocalKeys(scope),
     no_sc \in IF scope = "again" THEN BOOLEAN ELSE {FALSE}}

\* ok: btm_ble_start_encrypt takes the request, or
\* smp_calculate_link_key_from_long_term_key succeeds; sec_flags: what
\* the record of the device says of its keys
SmEnv0 ==
  [rsp |-> NoRsp, sec_req_act |-> "none", ok |-> TRUE, sec_flags |-> {}]

SmEnv(action, m) ==
  IF action = "smp_send_app_cback" /\ m.cb.cb_evt = "SMP_IO_CAP_REQ_EVT"
    THEN {[SmEnv0 EXCEPT !.rsp = rsp] : rsp \in SmpIoRsp(m.scope) \cup {NoRsp}}
  ELSE IF action = "smp_proc_sec_req"
    THEN {[SmEnv0 EXCEPT !.sec_req_act = act] :
            act \in {"BTM_BLE_SEC_REQ_ACT_ENCRYPT", "BTM_BLE_SEC_REQ_ACT_PAIR",
                     "BTM_BLE_SEC_REQ_ACT_DISCARD"}}
  ELSE IF action = "smp_start_enc"
    THEN {[SmEnv0 EXCEPT !.ok = ok] : ok \in BOOLEAN}
  ELSE IF action = "smp_key_distribution_check" /\ m.cb.derive_lk
    THEN {[SmEnv0 EXCEPT !.ok = ok, !.sec_flags = sec_flags] :
            ok \in BOOLEAN, sec_flags \in SUBSET BTM_SEC_KEY_AUTHED}
  ELSE {SmEnv0}

\* smp_sm_action: the action function an entry of a state table names
smp_sm_action(m, action, p_data, env) ==
  CASE action = "smp_send_app_cback" -> smp_send_app_cback(m, p_data, env.rsp)
    [] action = "smp_send_pair_fail" -> smp_send_pair_fail(m, p_data)
    [] action = "smp_send_pair_req" -> smp_send_pair_req(m, p_data)
    [] action = "smp_proc_sec_req" ->
         smp_proc_sec_req(m, p_data, env.sec_req_act)
    [] action = "smp_proc_sec_grant" -> smp_proc_sec_grant(m, p_data)
    [] action = "smp_proc_pair_fail" -> smp_proc_pair_fail(m, p_data)
    [] action = "smp_proc_pair_cmd" -> smp_proc_pair_cmd(m, p_data)
    [] action = "smp_process_io_response" -> smp_process_io_response(m, p_data)
    [] action = "smp_pairing_cmpl" -> smp_pairing_cmpl(m, p_data)
    [] action = "smp_pair_terminate" -> smp_pair_terminate(m, p_data)
    [] action = "smp_idle_terminate" -> smp_idle_terminate(m, p_data)
    [] action = "smp_proc_discard" -> smp_proc_discard(m, p_data)
    [] action = "smp_enc_cmpl" -> smp_enc_cmpl(m, p_data)
    [] action = "smp_generate_confirm" ->
         smp_generate_srand_mrand_confirm(m, p_data)
    [] action = "smp_send_confirm" -> smp_send_confirm(m, p_data)
    [] action = "smp_send_init" -> smp_send_cmd(m, SMP_OPCODE_INIT)
    [] action = "smp_send_rand" -> smp_send_cmd(m, SMP_OPCODE_RAND)
    [] action = "smp_proc_confirm" -> smp_proc_confirm(m, p_data)
    [] action = "smp_proc_rand" -> smp_proc_rand(m, p_data)
    [] action = "smp_generate_compare" -> smp_generate_compare(m, p_data)
    [] action = "smp_proc_compare" -> smp_proc_compare(m, p_data)
    [] action = "smp_proc_sl_key" -> smp_proc_sl_key(m, p_data)
    [] action = "smp_generate_stk" -> smp_generate_stk(m, p_data)
    [] action = "smp_start_enc" -> smp_start_enc(m, p_data, env.ok)
    [] action = "smp_send_ltk_reply" -> smp_send_ltk_reply(m, p_data)
    [] action = "smp_check_auth_req" -> smp_check_auth_req(m, p_data)
    [] action = "smp_key_distribution" -> smp_key_distribution(m, p_data)
    [] action = "smp_key_distribution_check" ->
         smp_key_distribution_check(m, p_data, env.sec_flags, env.ok)
    [] action = "smp_key_distribution_end" ->
         smp_key_distribution_end(m, p_data)
    [] action = "smp_key_distribution_by_transport" ->
         smp_key_distribution_by_transport(m, p_data)
    [] action = "smp_generate_ltk" -> smp_generate_ltk(m, p_data)
    [] action = "smp_send_enc_info" -> smp_send_enc_info(m, p_data)
    [] action = "smp_send_id_info" -> smp_send_id_info(m, p_data)
    [] action = "smp_generate_csrk" -> smp_generate_csrk(m, p_data)
    [] action = "smp_send_csrk_info" -> smp_send_csrk_info(m, p_data)
    [] action = "smp_set_derive_link_key" ->
         smp_set_derive_link_key(m, p_data)
    [] action = "smp_proc_enc_info" -> smp_proc_enc_info(m, p_data)
    [] action = "smp_proc_master_id" -> smp_proc_master_id(m, p_data)
    [] action = "smp_proc_id_info" -> smp_proc_id_info(m, p_data)
    [] action = "smp_proc_id_addr" -> smp_proc_id_addr(m, p_data)
    [] action = "smp_proc_srk_info" -> smp_proc_srk_info(m, p_data)
    [] action = "smp_create_private_key" -> smp_create_private_key(m)
    [] action = "smp_send_pair_public_key" ->
         smp_send_cmd(m, SMP_OPCODE_PAIR_PUBLIC_KEY)
    [] action = "smp_send_commitment" -> smp_send_cmd(m, SMP_OPCODE_PAIR_COMMITM)
    [] action = "smp_send_dhkey_check" ->
         smp_send_cmd(m, SMP_OPCODE_PAIR_DHKEY_CHECK)
    [] action = "smp_wait_for_both_public_keys" ->
         smp_wait_for_both_public_keys(m)
    [] action = "smp_process_pairing_public_key" ->
         smp_process_pairing_public_key(m, p_data)
    [] action = "smp_process_pairing_commitment" ->
         smp_process_pairing_commitment(m, p_data)
    [] action = "smp_process_dhkey_check" -> smp_process_dhkey_check(m, p_data)
    [] action = "smp_process_keypress_notification" ->
         smp_process_keypress_notification(m, p_data)
    [] action = "smp_both_have_public_keys" -> smp_both_have_public_keys(m)
    [] action = "smp_start_secure_connection_phase1" ->
         smp_start_secure_connection_phase1(m)
    [] action = "smp_start_passkey_verification" ->
         smp_start_passkey_verification(m)
    [] action = "smp_process_local_nonce" -> smp_process_local_nonce(m)
    [] action = "smp_process_peer_nonce" -> smp_process_peer_nonce(m)
    [] action = "smp_calculate_numeric_comparison_display_number" ->
         smp_calculate_numeric_comparison_display_number(m)
    [] action = "smp_calculate_local_dhkey_check" -> m
    [] action = "smp_calculate_peer_dhkey_check" ->
         smp_calculate_peer_dhkey_check(m)
    [] action = "smp_match_dhkey_checks" -> smp_match_dhkey_checks(m, p_data)
    [] action = "smp_phase_2_dhkey_checks_are_present" ->
         smp_phase_2_dhkey_checks_are_present(m)
    [] action = "smp_move_to_secure_connections_phase2" ->
         Raise(m, "SMP_SC_PHASE1_CMPLT_EVT", NoData)

(***************************************************************************)
(* An input is handled to its end in one step: smp_run gives the engines   *)
(* that the calls on m.todo can leave, one for each way the environment    *)
(* may answer.                                                             *)
(***************************************************************************)
RECURSIVE smp_run(_)
smp_run(m) ==
  IF m.todo = <<>> THEN {m}
  ELSE IF Head(m.todo).k = "evt"
    THEN smp_run(smp_sm_event([m EXCEPT !.todo = Tail(@)],
                              Head(m.todo).n, Head(m.todo).d))
  ELSE UNION {smp_run(smp_sm_action([m EXCEPT !.todo = Tail(@)],
                                    Head(m.todo).n, Head(m.todo).d, env)) :
                env \in SmEnv(Head(m.todo).n, m)}

\* inputs other than those of L2CAP and the timer are explored while at
\* most MaxUnacked PDUs wait to be sent
SmReady == smp.cb.total_tx_unacked <= MaxUnacked

\* has the state machine an entry for the event in its state?
SmHandles(event) ==
  smp_state_table(smp.cb.role, smp.cb.state, event) # SMP_SM_IGNORE

\* an input arrives when the engine has returned from the last one
SmInput(name) ==
  [smp EXCEPT !.tx = <<>>, !.cmpl = <<>>, !.evts = <<>>, !.ext = name]

\* SMP_Pair and smp_connect_callback: the application starts a pairing on
\* the connected link
SMP_Pair ==
  /\ SmReady
  /\ smp.pairings < Pairings(smp.scope)
  /\ smp.cb.state = "SMP_STATE_IDLE"
  /\ "SMP_PAIR_FLAGS_WE_STARTED_DD" \notin smp.cb.flags
  /\ ~smp.cb.smp_over_br
  /\ smp' \in smp_run(Raise([SmInput("SMP_Pair") EXCEPT
                               !.pairings = @ + 1,
                               !.cfm_sent = FALSE,
                               !.dist = <<>>,
                               !.cb.lk_log = <<>>,
                               !.cb.flags = {"SMP_PAIR_FLAGS_WE_STARTED_DD"},
                               !.cb.pairing_bda = PeerBda,
                               !.cb.role = smp.link_role,
                               !.cb.local_r_key = SMP_SEC_DEFAULT_KEY,
                               !.cb.local_i_key = SMP_SEC_DEFAULT_KEY,
                               !.cb.loc_auth_req = {},
                               !.cb.peer_auth_req = {},
                               !.cb.cb_evt = "SMP_IO_CAP_REQ_EVT"],
                            "SMP_L2CAP_CONN_EVT", NoData))
  /\ UNCHANGED <<avdtVars, avct>>

\* does a received PDU start a pairing? (smp_data_received)
SmpStarts(cb, cmd) ==
  /\ cmd \in {SMP_OPCODE_PAIRING_REQ, SMP_OPCODE_SEC_REQ}
  /\ cb.state = "SMP_STATE_IDLE"
  /\ cb.br_state = "SMP_BR_STATE_IDLE"
  /\ "SMP_PAIR_FLAGS_WE_STARTED_DD" \notin cb.flags

\* the event of a received opcode
SmpPduEvt ==
  [c \in 1..15 |->
     CASE c = SMP_OPCODE_PAIRING_REQ -> "SMP_PAIRING_REQ_EVT"
       [] c = SMP_OPCODE_PAIRING_RSP -> "SMP_PAIRING_RSP_EVT"
       [] c = SMP_OPCODE_CONFIRM -> "SMP_CONFIRM_EVT"
       [] c = SMP_OPCODE_RAND -> "SMP_RAND_EVT"
       [] c = SMP_OPCODE_PAIRING_FAILED -> "SMP_PAIRING_FAILED_EVT"
       [] c = SMP_OPCODE_ENCRYPT_INFO -> "SMP_ENCRPTION_INFO_EVT"
       [] c = SMP_OPCODE_MASTER_ID -> "SMP_MASTER_ID_EVT"
       [] c = SMP_OPCODE_IDENTITY_INFO -> "SMP_ID_INFO_EVT"
       [] c = SMP_OPCODE_ID_ADDR -> "SMP_ID_ADDR_EVT"
       [] c = SMP_OPCODE_SIGN_INFO -> "SMP_SIGN_INFO_EVT"
       [] c = SMP_OPCODE_SEC_REQ -> "SMP_SEC_REQ_EVT"
       [] c = SMP_OPCODE_PAIR_PUBLIC_KEY -> "SMP_PAIR_PUBLIC_KEY_EVT"
       [] c = SMP_OPCODE_PAIR_DHKEY_CHECK -> "SMP_PAIR_DHKEY_CHCK_EVT"
       [] c = SMP_OPCODE_PAIR_KEYPR_NOTIF -> "SMP_PAIR_KEYPR_NOTIF_EVT"
       [] c = SMP_OPCODE_PAIR_COMMITM -> "SMP_PAIR_COMMITM_EVT"]

\* smp_data_received: a PDU of the peer. A Pairing Request or a Security
\* Request that finds the engine idle and no pairing started by this side
\* makes the sender the peer of the pairing; any PDU of the peer of the
\* pairing goes to the state machine. Only PDUs for which the current state
\* has an entry are explored
smp_data_received ==
  /\ SmReady
  /\ \E pdu \in SmpPdus(smp.scope) :
       /\ (pdu.cmd = SMP_OPCODE_PAIR_PUBLIC_KEY /\ pdu.d.p_data.x = LocalPoint.x)
            => "SMP_PAIR_FLAG_HAVE_LOCAL_PUBL_KEY" \in smp.cb.flags
       /\ smp.cb.state = "SMP_STATE_IDLE" => smp.pairings < Pairings(smp.scope)
       /\ SmpStarts(smp.cb, pdu.cmd) \/ smp.cb.pairing_bda = PeerBda
       /\ smp_state_table(IF SmpStarts(smp.cb, pdu.cmd)
                             THEN smp.link_role ELSE smp.cb.role,
                           smp.cb.state, SmpPduEvt[pdu.cmd]) # SMP_SM_IGNORE
       /\ smp' \in smp_run(
            Raise([SmInput("smp_data_received") EXCEPT
                     !.pairings = IF smp.cb.state = "SMP_STATE_IDLE"
                                    THEN @ + 1 ELSE @,
                     !.cfm_sent = smp.cb.state # "SMP_STATE_IDLE" /\ @,
                     !.dist = IF smp.cb.state = "SMP_STATE_IDLE"
                                THEN <<>> ELSE @,
                     !.cb.lk_log = IF smp.cb.state = "SMP_STATE_IDLE"
                                     THEN <<>> ELSE @,
                     !.cb.role = IF SmpStarts(smp.cb, pdu.cmd)
                                   THEN smp.link_role ELSE @,
                     !.cb.pairing_bda = PeerBda,
                     !.cb.rcvd_cmd_code = pdu.cmd,
                     !.cb.rcvd_cmd_len = pdu.len],
                  SmpPduEvt[pdu.cmd], pdu.d))
  /\ UNCHANGED <<avdtVars, avct>>

\* SMP_SecurityGrant, the answer res to SMP_CONSENT_REQ_EVT of a pairing
\* that needs no passkey
SMP_SecurityGrant_consent(m, res) ==
  IF res # SMP_SUCCESS
    THEN Raise(m, "SMP_AUTH_CMPL_EVT", Status(SMP_NUMERIC_COMPAR_FAIL))
  ELSE IF m.cb.selected_association_model = "SMP_MODEL_SEC_CONN_JUSTWORKS"
    THEN Raise(m, "SMP_SC_NC_OK_EVT", NoData)
  ELSE Raise([m EXCEPT !.cb.sec_level = SMP_SEC_UNAUTHENTICATE],
             "SMP_KEY_READY_EVT", Key("SMP_KEY_TYPE_TK", 0))

\* SMP_SecurityGrant: the application's answer to SMP_SEC_REQUEST_EVT or
\* to SMP_CONSENT_REQ_EVT
SMP_SecurityGrant ==
  /\ SmReady
  /\ smp.cb.state = "SMP_STATE_WAIT_APP_RSP"
  /\ smp.cb.cb_evt \in {"SMP_SEC_REQUEST_EVT", "SMP_CONSENT_REQ_EVT"}
  /\ smp.cb.pairing_bda = PeerBda
  /\ \E res \in {SMP_SUCCESS, SMP_REPEATED_ATTEMPTS} :
       smp' \in smp_run(
         IF smp.cb.cb_evt = "SMP_SEC_REQUEST_EVT"
           THEN Raise([SmInput("SMP_SecurityGrant") EXCEPT !.cb.cb_evt = "NONE"],
                      "SMP_API_SEC_GRANT_EVT", Status(res))
           ELSE SMP_SecurityGrant_consent(
                  [SmInput("SMP_SecurityGrant") EXCEPT !.cb.cb_evt = "NONE"],
                  res))
  /\ UNCHANGED <<avdtVars, avct>>

\* SMP_PasskeyReply: the application's answer to SMP_PASSKEY_REQ_EVT, the
\* passkey the user typed or a failure
SMP_PasskeyReply ==
  /\ SmReady
  /\ smp.cb.state = "SMP_STATE_WAIT_APP_RSP"
  /\ smp.cb.cb_evt = "SMP_PASSKEY_REQ_EVT"
  /\ smp.cb.pairing_bda = PeerBda
  /\ \E res \in {SMP_SUCCESS, SMP_PASSKEY_ENTRY_FAIL} :
       smp' \in smp_run(
         IF res # SMP_SUCCESS
           THEN Raise(SmInput("SMP_PasskeyReply"),
                      "SMP_AUTH_CMPL_EVT", Status(SMP_PASSKEY_ENTRY_FAIL))
         ELSE IF smp.cb.le_secure_connections_mode_is_used
           THEN Raise(SmInput("SMP_PasskeyReply"),
                      "SMP_SC_KEY_READY_EVT", Key("SMP_KEY_TYPE_TK", 0))
         ELSE Raise(SmInput("SMP_PasskeyReply"),
                    "SMP_KEY_READY_EVT", Key("SMP_KEY_TYPE_TK", 0)))
  /\ UNCHANGED <<avdtVars, avct>>

\* SMP_ConfirmReply: the application's answer to SMP_NC_REQ_EVT, the user
\* has found the two numbers equal or not
SMP_ConfirmReply ==
  /\ SmReady
  /\ smp.cb.state = "SMP_STATE_WAIT_APP_RSP"
  /\ smp.cb.cb_evt = "SMP_NC_REQ_EVT"
  /\ smp.cb.pairing_bda = PeerBda
  /\ \E res \in {SMP_SUCCESS, SMP_PASSKEY_ENTRY_FAIL} :
       smp' \in smp_run(
         IF res # SMP_SUCCESS
           THEN Raise(SmInput("SMP_ConfirmReply"),
                      "SMP_AUTH_CMPL_EVT", Status(SMP_NUMERIC_COMPAR_FAIL))
           ELSE Raise(SmInput("SMP_ConfirmReply"), "SMP_SC_NC_OK_EVT", NoData))
  /\ UNCHANGED <<avdtVars, avct>>

\* smp_process_private_key: the controller has delivered the random
\* numbers of the private key, the local public key is made; explored in
\* the state that waits for it
smp_process_private_key ==
  /\ SmReady
  /\ SmHandles("SMP_LOC_PUBL_KEY_CRTD_EVT")
  /\ "smp_process_private_key" \in smp.rnd
  /\ smp' \in smp_run(
       Raise([SmInput("smp_process_private_key") EXCEPT
                !.rnd = @ \ {"smp_process_private_key"},
                !.cb.loc_publ_key = LocalPoint,
                !.cb.flags = @ \cup {"SMP_PAIR_FLAG_HAVE_LOCAL_PUBL_KEY"}],
             "SMP_LOC_PUBL_KEY_CRTD_EVT", NoData))
  /\ UNCHANGED <<avdtVars, avct>>

\* smp_finish_nonce_generation: the controller has delivered the random
\* numbers of the nonce; explored in the state that waits for it
smp_finish_nonce_generation ==
  /\ SmReady
  /\ SmHandles("SMP_HAVE_LOC_NONCE_EVT")
  /\ "smp_finish_nonce_generation" \in smp.rnd
  /\ smp' \in smp_run(
       Raise([SmInput("smp_finish_nonce_generation") EXCEPT
                !.rnd = @ \ {"smp_finish_nonce_generation"}],
             "SMP_HAVE_LOC_NONCE_EVT", NoData))
  /\ UNCHANGED <<avdtVars, avct>>

\* smp_link_encrypted: the controller reports the encryption of the link
\* to the peer of the pairing as switched on (1) or failed (0); explored
\* in the states with an entry for the event
smp_link_encrypted ==
  /\ SmReady
  /\ smp.cb.pairing_bda = PeerBda
  /\ smp.enc \/ smp.cb.state = "SMP_STATE_SEC_REQ_PENDING"
  /\ SmHandles("SMP_ENCRYPTED_EVT")
  /\ \E encr_enable \in {0, 1} :
       smp' \in smp_run(Raise([SmInput("smp_link_encrypted") EXCEPT
                                 !.enc = FALSE],
                              "SMP_ENCRYPTED_EVT", Status(encr_enable)))
  /\ UNCHANGED <<avdtVars, avct>>

\* smp_proc_ltk_request: the controller asks the slave for the key
smp_proc_ltk_request ==
  /\ SmReady
  /\ smp.cb.pairing_bda = PeerBda
  /\ smp.cb.state = "SMP_STATE_ENCRYPTION_PENDING"
  /\ smp.cb.role = HCI_ROLE_SLAVE
  /\ ~smp.enc
  /\ smp' \in smp_run(Raise(SmInput("smp_proc_ltk_request"),
                            "SMP_ENC_REQ_EVT", NoData))
  /\ UNCHANGED <<avdtVars, avct>>

\* smp_delayed_auth_complete_timeout: the timer that delays the success
\* expires; the pairing has succeeded if it still is in BOND_PENDING
smp_delayed_auth_complete_timeout ==
  /\ smp.cb.delayed_auth_timer_ent
  /\ smp' \in smp_run(
       IF smp.cb.state = "SMP_STATE_BOND_PENDING"
         THEN Raise([SmInput("smp_delayed_auth_complete_timeout") EXCEPT
                       !.cb.delayed_auth_timer_ent = FALSE],
                    "SMP_AUTH_CMPL_EVT", Status(SMP_SUCCESS))
         ELSE [SmInput("smp_delayed_auth_complete_timeout") EXCEPT
                 !.cb.delayed_auth_timer_ent = FALSE])
  /\ UNCHANGED <<avdtVars, avct>>

\* smp_connect_callback, the link to the peer of the pairing is gone;
\* explored when the engine is not idle or has started the pairing itself
L2capDisconnected ==
  /\ smp.cb.pairing_bda = PeerBda
  /\ \/ smp.cb.state # "SMP_STATE_IDLE"
     \/ "SMP_PAIR_FLAGS_WE_STARTED_DD" \in smp.cb.flags
  /\ smp' \in smp_run(Raise([SmInput("L2capDisconnected") EXCEPT
                               !.enc = FALSE],
                            "SMP_L2CAP_DISCONN_EVT", NoData))
  /\ UNCHANGED <<avdtVars, avct>>

\* smp_tx_complete_callback, the last PDU is acknowledged: what waited for
\* it goes on, a failed pairing completes and a finished key distribution
\* starts the timer that delays the success
smp_tx_complete_callback_last(m) ==
  IF ~m.cb.wait_for_authorization_complete THEN m
  ELSE IF m.cb.state = "SMP_STATE_IDLE" THEN smp_pairing_cmpl(m, NoData)
  ELSE IF /\ m.cb.state = "SMP_STATE_BOND_PENDING"
          /\ m.cb.local_i_key = {}
          /\ m.cb.local_r_key = {}
    THEN [m EXCEPT !.cb.delayed_auth_timer_ent = TRUE]
  ELSE m

\* smp_tx_complete_callback: L2CAP has sent num_pkt PDUs
smp_tx_complete_callback ==
  /\ smp.cb.total_tx_unacked > 0
  /\ \E num_pkt \in {1, smp.cb.total_tx_unacked} :
       smp' \in smp_run(
         IF smp.cb.total_tx_unacked > num_pkt
           THEN [SmInput("smp_tx_complete_callback") EXCEPT
                   !.cb.total_tx_unacked = @ - num_pkt]
           ELSE smp_tx_complete_callback_last(
                  [SmInput("smp_tx_complete_callback") EXCEPT
                     !.cb.total_tx_unacked = 0]))
  /\ UNCHANGED <<avdtVars, avct>>

InitSmp ==
  /\ ccb = InitCcb(MinPeerMtu, 0)
  /\ peer_ccb = InitCcb(MinPeerMtu, 0)
  /\ wire = <<>>
  /\ orig = NULL
  /\ rxd = <<>>
  /\ ind = NoInd
  /\ run = NoRun
  /\ prs = NoPrs
  /\ xmit = NoSent
  /\ smp \in {[SmpIdle(role, sc_mode, scope) EXCEPT !.cb.cert_failure = reason] :
                role \in {HCI_ROLE_MASTER, HCI_ROLE_SLAVE},
                sc_mode \in BOOLEAN, scope \in Scopes,
                reason \in CertFailures}
  /\ smp.cb.cert_failure # SMP_SUCCESS => smp.scope = "passkey"
  /\ smp.scope = "derive" =>
       smp.link_role = HCI_ROLE_SLAVE /\ ~smp.security_mode_sc
  /\ avct = AvctIdle

NextSmp ==
  \/ SMP_Pair
  \/ smp_data_received
  \/ SMP_SecurityGrant
  \/ SMP_PasskeyReply
  \/ SMP_ConfirmReply
  \/ smp_process_private_key
  \/ smp_finish_nonce_generation
  \/ smp_link_encrypted
  \/ smp_proc_ltk_request
  \/ smp_delayed_auth_complete_timeout
  \/ L2capDisconnected
  \/ smp_tx_complete_callback

SpecSmp == InitSmp /\ [][NextSmp]_vars

(***************************************************************************)
(* Properties of the pairing engine. They speak of the engine at rest      *)
(* after an input: smp.evts are the events the input raised, smp.tx the    *)
(* PDUs it sent and smp.cmpl the completions it reported.                  *)
(***************************************************************************)
Raised(event, status) ==
  \E i \in 1..Len(smp.evts) :
    smp.evts[i].n = event /\ smp.evts[i].status = status

SmpSent(cmd_code) == \E i \in 1..Len(smp.tx) : smp.tx[i] = cmd_code

Failed(status) == Raised("SMP_AUTH_CMPL_EVT", status)

\* the states in which an association model runs
ModelStates ==
  {"SMP_STATE_CONFIRM", "SMP_STATE_RAND", "SMP_STATE_PUBLIC_KEY_EXCH",
   "SMP_STATE_SEC_CONN_PHS1_START", "SMP_STATE_WAIT_COMMITMENT",
   "SMP_STATE_WAIT_NONCE", "SMP_STATE_SEC_CONN_PHS2_START",
   "SMP_STATE_WAIT_DHK_CHECK", "SMP_STATE_DHK_CHECK"}

\* the input selected the association model: the slave's application has
\* answered for a pairing the peer started, or the Pairing Request or
\* Pairing Response with valid parameters came to the side that started
SelectionRan ==
  \/ /\ \E i \in 1..Len(smp.evts) :
          /\ smp.evts[i].n = "SMP_IO_RSP_EVT"
          /\ smp.evts[i].state = "SMP_STATE_WAIT_APP_RSP"
     /\ "SMP_PAIR_FLAGS_WE_STARTED_DD" \notin smp.cb.flags
     /\ smp.cb.role = HCI_ROLE_SLAVE
  \/ /\ smp.ext = "smp_data_received"
     /\ smp.evts[1].n \in {"SMP_PAIRING_REQ_EVT", "SMP_PAIRING_RSP_EVT"}
     /\ smp.evts[1].state \in {"SMP_STATE_PAIR_REQ_RSP",
                               "SMP_STATE_SEC_REQ_PENDING"}
     /\ ~Failed(SMP_INVALID_PARAMETERS)

\* C2: in Secure Connections Only mode a pairing whose model is not a
\* Secure Connections model, or is Secure Connections Just Works, does not
\* get past the selection of the model: no Pairing Response is sent, no
\* model is started, no success is reported, and the selection ends in
\* SMP_AUTH_CMPL_EVT with SMP_PAIR_AUTH_FAIL
C2_ScOnlyGate ==
  (/\ smp.cb.secure_connections_only_mode_required
   /\ \/ ~smp.cb.le_secure_connections_mode_is_used
      \/ smp.cb.selected_association_model = "SMP_MODEL_SEC_CONN_JUSTWORKS")
    => /\ smp.cb.state \notin ModelStates
       /\ ~SmpSent(SMP_OPCODE_PAIRING_RSP)
       /\ smp.rnd = {}
       /\ SelectionRan =>
            /\ Failed(SMP_PAIR_AUTH_FAIL)
            /\ smp.cmpl = <<>>
            /\ smp.cb.state = "SMP_STATE_IDLE"
            /\ smp.tx = <<SMP_OPCODE_PAIRING_FAILED>>

C2_Witness ==
  /\ smp.cb.secure_connections_only_mode_required
  /\ smp.cb.le_secure_connections_mode_is_used
  /\ smp.cb.selected_association_model = "SMP_MODEL_SEC_CONN_JUSTWORKS"
  /\ SelectionRan
  /\ smp.cb.role = HCI_ROLE_SLAVE
  /\ Failed(SMP_PAIR_AUTH_FAIL)

\* C7: after a failed pairing the control block is zeroed before the next
\* pairing starts: a pairing that starts after a SMP_AUTH_CMPL_EVT with a
\* status other than success finds every field of the block zero
C7_ZeroedBeforeNext ==
  [][(smp'.pairings > smp.pairings /\ smp.cb.failure # SMP_SUCCESS)
       => smp.cb = SmpZeroCb]_vars

\* the input was a PDU of the peer whose length is not the length of its
\* opcode
BadLengthPdu ==
  /\ smp.ext = "smp_data_received"
  /\ \E c \in DOMAIN SmpPduEvt \ {SMP_OPCODE_PAIRING_FAILED} :
       /\ smp.evts[1].n = SmpPduEvt[c]
       /\ smp.evts[1].rcvd_cmd_len # smp_cmd_size_per_spec[c]

\* C8: a PDU, other than Pairing Failed, whose length is not the length of
\* its opcode makes its handler raise SMP_AUTH_CMPL_EVT with
\* SMP_INVALID_PARAMETERS: Pairing Failed is sent and the state machine is
\* back in SMP_STATE_IDLE
C8_BadLength ==
  BadLengthPdu => /\ Failed(SMP_INVALID_PARAMETERS)
                  /\ SmpSent(SMP_OPCODE_PAIRING_FAILED)
                  /\ smp.cb.state = "SMP_STATE_IDLE"

\* the input was a Pairing Failed PDU of the peer
PairFailRcvd ==
  /\ smp.ext = "smp_data_received"
  /\ smp.evts[1].n = "SMP_PAIRING_FAILED_EVT"

\* the status a received Pairing Failed PDU is to leave
PairFailStatus ==
  IF smp.evts[1].rcvd_cmd_len < 2 THEN SMP_INVALID_PARAMETERS
                                  ELSE smp.evts[1].status

\* C9: the handling of a received Pairing Failed PDU sends nothing; the
\* status it records, in the block or in the completion reported, is
\* SMP_INVALID_PARAMETERS for a length below 2 and else the reason of the
\* peer; the delayed-auth timer is not pending afterwards
C9_PairFail ==
  PairFailRcvd =>
    /\ smp.tx = <<>>
    /\ ~smp.cb.delayed_auth_timer_ent
    /\ Len(smp.evts) = 1
    /\ IF smp.cmpl = <<>> THEN smp.cb.status = PairFailStatus
       ELSE smp.cmpl = <<[reason |-> PairFailStatus, sec_level |-> SMP_SEC_NONE]>>

C9_Witness ==
  /\ PairFailRcvd
  /\ smp.evts[1].rcvd_cmd_len < 2
  /\ smp.evts[1].status = SMP_PAIR_AUTH_FAIL
  /\ smp.cmpl # <<>>
  /\ smp.cmpl[1].reason = SMP_INVALID_PARAMETERS

\* the input was a Pairing Public Key PDU of the right length; its point
\* is in smp.cb.peer_publ_key
PublicKeyRcvd ==
  /\ smp.ext = "smp_data_received"
  /\ smp.evts[1].n = "SMP_PAIR_PUBLIC_KEY_EVT"
  /\ smp.evts[1].rcvd_cmd_len = smp_cmd_size_per_spec[SMP_OPCODE_PAIR_PUBLIC_KEY]

\* the point received is not a point of the curve or is the local key
BadPublicKey ==
  \/ smp.cb.peer_publ_key \notin CurvePoints
  \/ smp.cb.peer_publ_key = smp.cb.loc_publ_key

\* what the handling of a refused key leaves
PublicKeyRefused ==
  /\ Failed(SMP_PAIR_AUTH_FAIL)
  /\ \A i \in 1..Len(smp.evts) : smp.evts[i].n # "SMP_BOTH_PUBL_KEYS_RCVD_EVT"
  /\ smp.tx = <<SMP_OPCODE_PAIRING_FAILED>>
  /\ smp.cb.state = "SMP_STATE_IDLE"

\* C10: a received public key that is not a point of the curve, or is the
\* local public key, fails the pairing with SMP_PAIR_AUTH_FAIL: the flag
\* SMP_PAIR_FLAG_HAVE_PEER_PUBL_KEY is not set for it,
\* SMP_BOTH_PUBL_KEYS_RCVD_EVT is not raised, no DHKey is made of the key
\* and nothing but Pairing Failed is sent
C10_BadPublicKey ==
  [][(PublicKeyRcvd' /\ BadPublicKey')
       => /\ PublicKeyRefused'
          /\ smp'.cb.flags \subseteq smp.cb.flags
          /\ smp'.cb.dhkey = smp.cb.dhkey]_vars

C10_Witness ==
  /\ PublicKeyRcvd
  /\ smp.cb.peer_publ_key \notin CurvePoints
  /\ "SMP_PAIR_FLAG_HAVE_LOCAL_PUBL_KEY" \in smp.cb.flags
  /\ Failed(SMP_PAIR_AUTH_FAIL)

\* C6: when SMP_AUTH_CMPL_EVT is raised with SMP_SUCCESS, both masks
\* local_i_key and local_r_key are zero
C6_MasksZeroAtSuccess ==
  \A i \in 1..Len(smp.evts) :
    (smp.evts[i].n = "SMP_AUTH_CMPL_EVT" /\ smp.evts[i].status = SMP_SUCCESS)
      => smp.evts[i].local_i_key = {} /\ smp.evts[i].local_r_key = {}

\* the states before the Pairing Request and Pairing Response are exchanged
BeforeExchange ==
  {"SMP_STATE_IDLE", "SMP_STATE_WAIT_APP_RSP", "SMP_STATE_SEC_REQ_PENDING",
   "SMP_STATE_PAIR_REQ_RSP"}

\* the keys the mode derives on each side instead of sending them
DerivedKeys(cb) ==
  IF cb.le_secure_connections_mode_is_used
    THEN {SMP_SEC_KEY_TYPE_ENC, SMP_SEC_KEY_TYPE_LK} ELSE {}

\* C13: after the Pairing Request and Pairing Response are exchanged, in
\* both roles and whatever the peer puts in its PDU, local_i_key and
\* local_r_key are subsets of the key types the application requested that
\* the peer announced as well, less the keys the mode derives locally.
C13_KeyMasks ==
  smp.cb.state \notin BeforeExchange =>
    /\ smp.cb.local_i_key
         \subseteq (smp.app[1] \cap smp.cb.peer_i_key) \ DerivedKeys(smp.cb)
    /\ smp.cb.local_r_key
         \subseteq (smp.app[2] \cap smp.cb.peer_r_key) \ DerivedKeys(smp.cb)

\* smp_match_dhkey_checks has run: the check value the peer should have sent
\* was ready in the state DHK_CHECK
MatchRan ==
  \E i \in 1..Len(smp.evts) :
    /\ smp.evts[i].n = "SMP_SC_KEY_READY_EVT"
    /\ smp.evts[i].state = "SMP_STATE_DHK_CHECK"

\* the check value of the peer that the block holds is not the value
\* smp_calculate_peer_dhkey_check computes (the value 1)
DhkeyMismatch == smp.cb.remote_dhkey_check # 1

\* C14: in phase 2 of Secure Connections, when the check value computed for
\* the peer differs from the value received, the pairing fails with
\* DHKEY_CHK_FAIL and no encryption is requested for it; the engine goes on
\* to ENCRYPTION_PENDING only when the two values are equal. (A pairing that
\* has completed within the same input has left a zeroed block: then no
\* encryption is pending either.)
C14_DhkeyCheck ==
  MatchRan =>
    /\ (DhkeyMismatch /\ smp.cmpl = <<>>) =>
         /\ Failed(SMP_DHKEY_CHK_FAIL)
         /\ smp.cb.failure = SMP_DHKEY_CHK_FAIL
         /\ smp.tx # <<>>
         /\ smp.tx[Len(smp.tx)] = SMP_OPCODE_PAIRING_FAILED
         /\ SMP_OPCODE_PAIR_DHKEY_CHECK \notin {smp.tx[i] : i \in 1..Len(smp.tx)}
         /\ smp.cb.state = "SMP_STATE_IDLE"
         /\ ~smp.enc
         /\ \A i \in 1..Len(smp.evts) :
              smp.evts[i].n \notin {"SMP_ENC_REQ_EVT", "SMP_PAIR_DHKEY_CHCK_EVT"}
                \/ smp.evts[i].state # "SMP_STATE_DHK_CHECK"
    /\ smp.cmpl # <<>> => (~smp.enc /\ smp.cb.state = "SMP_STATE_IDLE")
    /\ smp.cb.state = "SMP_STATE_ENCRYPTION_PENDING" => ~DhkeyMismatch

\* the peer's check value 0 was compared and the pairing has failed
C14_Witness ==
  /\ MatchRan
  /\ smp.cb.remote_dhkey_check = 0
  /\ "SMP_PAIR_FLAG_HAVE_PEER_DHK_CHK" \in smp.cb.flags
  /\ Failed(SMP_DHKEY_CHK_FAIL)
  /\ ~smp.enc

\* both check values were equal and the engine waits for the encryption
C14_WitnessEqual ==
  /\ MatchRan
  /\ smp.cb.remote_dhkey_check = 1
  /\ smp.cb.state = "SMP_STATE_ENCRYPTION_PENDING"

\* the key distribution has ended: BOND_PENDING with both masks zero and
\* every PDU sent acknowledged
DistributionEnded(cb) ==
  /\ cb.state = "SMP_STATE_BOND_PENDING"
  /\ cb.local_i_key = {}
  /\ cb.local_r_key = {}
  /\ cb.total_tx_unacked = 0

\* success is raised in BOND_PENDING by nothing but the expiry of the timer,
\* and the timer runs when the key distribution has ended
DelayedAuth ==
  /\ \A i \in 1..Len(smp.evts) :
       ( /\ smp.evts[i].n = "SMP_AUTH_CMPL_EVT"
         /\ smp.evts[i].status = SMP_SUCCESS
         /\ smp.evts[i].state = "SMP_STATE_BOND_PENDING" )
         => smp.ext = "smp_delayed_auth_complete_timeout"
  /\ DistributionEnded(smp.cb) => smp.cb.delayed_auth_timer_ent

\* a Pairing Failed received while the timer runs stops it and ends the
\* pairing with a failure
FailCancels ==
  ( /\ DistributionEnded(smp.cb)
    /\ smp.cb.delayed_auth_timer_ent
    /\ PairFailRcvd' ) =>
    /\ ~smp'.cb.delayed_auth_timer_ent
    /\ smp'.cb.state = "SMP_STATE_IDLE"
    /\ \A i \in 1..Len(smp'.evts) : smp'.evts[i].status # SMP_SUCCESS
    /\ Len(smp'.cmpl) = 1
    /\ smp'.cmpl[1].reason # SMP_SUCCESS

KeyTypeOf(cmd_code) ==
  CASE cmd_code \in {SMP_OPCODE_ENCRYPT_INFO, SMP_OPCODE_MASTER_ID} ->
         SMP_SEC_KEY_TYPE_ENC
    [] cmd_code \in {SMP_OPCODE_IDENTITY_INFO, SMP_OPCODE_ID_ADDR} ->
         SMP_SEC_KEY_TYPE_ID
    [] cmd_code = SMP_OPCODE_SIGN_INFO -> SMP_SEC_KEY_TYPE_CSRK
    [] OTHER -> 0

\* the positions in tx of the key PDUs sent by the last input
KeysSent(m) == {i \in 1..Len(m.tx) : KeyTypeOf(m.tx[i]) # 0}

\* the mask of the keys the local device is to send
KeyToDist(cb) ==
  IF cb.role = HCI_ROLE_SLAVE THEN cb.local_r_key ELSE cb.local_i_key

\* the parts of C16 for one input: before is the block the input finds,
\* after the engine it leaves
KeyOrder(before, after) ==
  LET sent == KeysSent(after)
  IN /\ \A i \in sent : \A j \in sent :
          i < j => KeyTypeOf(after.tx[i]) <= KeyTypeOf(after.tx[j])
     /\ \A i \in sent :
          /\ KeyTypeOf(after.tx[i]) \in KeyToDist(before)
          /\ KeyTypeOf(after.tx[i]) \notin KeyToDist(after.cb)
          /\ \A k \in KeyToDist(after.cb) : KeyTypeOf(after.tx[i]) < k
     /\ (sent # {} /\ before.role = HCI_ROLE_MASTER) => after.cb.local_r_key = {}
     /\ \A n \in {SMP_OPCODE_IDENTITY_INFO, SMP_OPCODE_ID_ADDR, SMP_OPCODE_SIGN_INFO} :
          Cardinality({i \in sent : after.tx[i] = n}) <= 1

\* C16: the keys go out in the order ENC, ID, CSRK, LK, the lowest bit of
\* the mask first and one key for each call of smp_key_pick_key; the
\* responder walks local_r_key; the initiator sends a key of local_i_key only
\* when local_r_key is zero, never while the responder has keys to send.
C16_KeyOrder == [][KeyOrder(smp.cb, smp')]_vars

\* the initiator has sent its encryption key and its identity key, in this
\* order, on the last key of the responder
C16_Witness ==
  /\ smp.ext = "smp_data_received"
  /\ smp.cb.role = HCI_ROLE_MASTER
  /\ smp.tx = <<SMP_OPCODE_ENCRYPT_INFO, SMP_OPCODE_MASTER_ID,
                SMP_OPCODE_IDENTITY_INFO, SMP_OPCODE_ID_ADDR>>
  /\ smp.cb.local_r_key = {}

\* the completion with the status is reported to the application, now or
\* when L2CAP has sent the PDUs that wait (smp_pairing_cmpl holds it back
\* until then, and the tx-complete callback raises it for a block that
\* waits for the authorization to complete)
Reported(status) ==
  \/ /\ smp.cmpl # <<>>
     /\ smp.cmpl[Len(smp.cmpl)].reason = status
  \/ /\ smp.cmpl = <<>>
     /\ smp.cb.total_tx_unacked > 0
     /\ smp.cb.wait_for_authorization_complete
     /\ smp.cb.status = status

\* C18: on every pairing failure that is not itself the receipt of a Pairing
\* Failed PDU (an input that raised SMP_AUTH_CMPL_EVT with a status other
\* than success), the engine sends a Pairing Failed PDU, whose reason
\* smp_send_cmd takes from the failure of the block, and the completion
\* with that reason goes to the application.
C18_FailureReported ==
  \A i \in 1..Len(smp.evts) :
    (/\ ~PairFailRcvd
     /\ smp.evts[i].n = "SMP_AUTH_CMPL_EVT"
     /\ smp.evts[i].status # SMP_SUCCESS) =>
      /\ SmpSent(SMP_OPCODE_PAIRING_FAILED)
      /\ smp.cmpl = <<>> => smp.cb.failure = smp.evts[i].status
      /\ Reported(smp.evts[i].status)

\* the engine with the transport of its block set as given
OverBr(m, br) == [m EXCEPT !.cb.smp_over_br = br]

\* the parts of C28 for one call: b is the engine before the call
KeyMaskUpdate(b, key_type, recv) ==
  LET a == smp_update_key_mask(b, key_type, recv)
      i == b.cb.local_i_key
      r == b.cb.local_r_key
      derived == /\ b.cb.le_secure_connections_mode_is_used \/ b.cb.smp_over_br
                 /\ key_type \in {SMP_SEC_KEY_TYPE_ENC, SMP_SEC_KEY_TYPE_LK}
      legacy == ~b.cb.le_secure_connections_mode_is_used /\ ~b.cb.smp_over_br
      \* the mask of the keys of the initiator is the one to update
      initiator_key == (b.cb.role = HCI_ROLE_SLAVE) = recv
  IN /\ a = [b EXCEPT !.cb.local_i_key = a.cb.local_i_key,
                      !.cb.local_r_key = a.cb.local_r_key]
     /\ a.cb.local_i_key \in {i, i \ {key_type}}
     /\ a.cb.local_r_key \in {r, r \ {key_type}}
     /\ key_type \notin a.cb.local_i_key \cap a.cb.local_r_key
     /\ legacy =>
          /\ a.cb.local_i_key = IF initiator_key THEN i \ {key_type} ELSE i
          /\ a.cb.local_r_key = IF initiator_key THEN r ELSE r \ {key_type}
     /\ derived =>
          /\ a.cb.local_i_key = i \ {key_type}
          /\ a.cb.local_r_key = r \ {key_type}

\* C28: smp_update_key_mask clears the bit of the key type given and changes
\* nothing else: in legacy LE pairing the responder clears it in local_r_key
\* for a key it sends and in local_i_key for a key it receives, the
\* initiator the other way round, and the other mask stays as it is; with
\* Secure Connections in use or over BR/EDR the bit of ENC and of LK is
\* cleared in both masks, whatever the role and the direction
C28_KeyMaskUpdate ==
  \A br \in BOOLEAN, key_type \in SMP_SEC_DEFAULT_KEY, recv \in BOOLEAN :
    KeyMaskUpdate(OverBr(smp, br), key_type, recv)

\* Secure Connections, the link encrypted and keys still to distribute: the
\* bit of ENC, which smp_check_auth_req sets in local_i_key, is cleared in
\* both masks
C28_Witness ==
  /\ smp.cb.le_secure_connections_mode_is_used
  /\ smp.cb.state = "SMP_STATE_BOND_PENDING"
  /\ smp.cb.role = HCI_ROLE_MASTER
  /\ SMP_SEC_KEY_TYPE_ENC \notin smp.cb.local_i_key \cup smp.cb.local_r_key
  /\ smp.cb.local_i_key # {}

\* C29: when the link is reported encrypted and the keys are about to be
\* distributed (smp_check_auth_req on the block of the state), the bit of LK
\* is left in a mask only if Secure Connections is in use and the bit was
\* set in local_i_key and in local_r_key; in legacy pairing, or when one of
\* the masks lacks it, it is cleared in both
C29_LinkKey ==
  LET b == smp.cb
      a == smp_check_auth_req_keys(b)
      both == SMP_SEC_KEY_TYPE_LK \in b.local_i_key \cap b.local_r_key
  IN /\ SMP_SEC_KEY_TYPE_LK \in a.local_i_key \cup a.local_r_key =>
          b.le_secure_connections_mode_is_used /\ both
     /\ (~b.le_secure_connections_mode_is_used \/ ~both) =>
          /\ SMP_SEC_KEY_TYPE_LK \notin a.local_i_key
          /\ SMP_SEC_KEY_TYPE_LK \notin a.local_r_key

\* under Secure Connections with the link key asked for by both sides, the
\* link is encrypted and the link key is set to be derived
C29_Witness ==
  /\ smp.cb.le_secure_connections_mode_is_used
  /\ smp.cb.state = "SMP_STATE_BOND_PENDING"
  /\ smp.cb.derive_lk

\* the association models of passkey entry, in either direction
PasskeyModels ==
  {"SMP_MODEL_SEC_CONN_PASSKEY_ENT", "SMP_MODEL_SEC_CONN_PASSKEY_DISP"}

\* the input has made the engine handle the event in the state
Handled(m, event, state) ==
  \E i \in 1..Len(m.evts) : m.evts[i].n = event /\ m.evts[i].state = state

\* the input has run smp_start_passkey_verification
VerificationStarted(m) ==
  \/ Handled(m, "SMP_SC_KEY_READY_EVT", "SMP_STATE_WAIT_APP_RSP")
  \/ Handled(m, "SMP_KEY_READY_EVT", "SMP_STATE_SEC_CONN_PHS1_START")

\* the input is the Pairing Random of the peer in a round of passkey entry
NonceOfRound(before, m) ==
  /\ before.state = "SMP_STATE_WAIT_NONCE"
  /\ before.selected_association_model \in PasskeyModels
  /\ m.ext = "smp_data_received"
  /\ m.evts # <<>>
  /\ m.evts[1].n = "SMP_RAND_EVT"

\* the input has completed phase 1
Phase1Complete(m) ==
  \E i \in 1..Len(m.evts) : m.evts[i].n = "SMP_SC_PHASE1_CMPLT_EVT"

\* the input has ended the pairing with the status
AuthCmpl(m, status) ==
  \E i \in 1..Len(m.evts) :
    m.evts[i].n = "SMP_AUTH_CMPL_EVT" /\ m.evts[i].status = status

\* the commitment of the round was checked with success; with test_mode a
\* round under the failure mode SMP_NUMERIC_COMPAR_FAIL counts as well
RoundSucceeded(cb, test_mode) ==
  \/ smp_check_commitment(cb)
  \/ test_mode /\ cb.cert_failure = SMP_NUMERIC_COMPAR_FAIL

\* the rounds of passkey entry over one input, from the block before it to
\* the engine after it
PasskeyRounds(before, m, test_mode) ==
  /\ VerificationStarted(m) => m.cb.round = 0
  /\ m.cb.round # before.round =>
       \/ m.cb.round = 0 /\ (VerificationStarted(m) \/ m.cmpl # <<>>)
       \/ /\ m.cb.round = before.round + 1
          /\ NonceOfRound(before, m)
          /\ RoundSucceeded(m.cb, test_mode)
  /\ before.selected_association_model \in PasskeyModels =>
       (Phase1Complete(m) <=> before.round = 19 /\ m.cb.round = 20)
  /\ NonceOfRound(before, m) =>
       \/ m.cb.round = before.round + 1
       \/ /\ AuthCmpl(m, SMP_CONFIRM_VALUE_ERR)
             \/ AuthCmpl(m, SMP_INVALID_PARAMETERS)
          /\ ~Phase1Complete(m)
          /\ m.cb.state = "SMP_STATE_IDLE"
          /\ m.cb.round \in {before.round, 0}
  /\ (NonceOfRound(before, m) /\ m.cmpl = <<>>
        /\ m.evts[1].rcvd_cmd_len = smp_cmd_size_per_spec[SMP_OPCODE_RAND]) =>
       (AuthCmpl(m, SMP_CONFIRM_VALUE_ERR) <=> ~RoundSucceeded(m.cb, test_mode))

\* C30: in Secure Connections passkey entry (either direction) the round
\* counter is 0 when the passkey verification starts, goes up by one only
\* on a Pairing Random whose round has succeeded, and phase 1 completes
\* exactly on the step from round 19 to round 20; a commitment that does
\* not match the random value ends the pairing with CONFIRM_VALUE_ERR and
\* without completing phase 1, except under the certification failure mode
\* SMP_NUMERIC_COMPAR_FAIL, where the round counts as succeeded.
C30_PasskeyRounds == [][PasskeyRounds(smp.cb, smp', TRUE)]_vars

\* the same with no exception: every commitment mismatch ends the pairing
C30_EveryMismatchFails == [][PasskeyRounds(smp.cb, smp', FALSE)]_vars

\* the twentieth round has succeeded on a matching commitment and phase 1
\* is complete
C30_Witness ==
  /\ smp.cb.selected_association_model \in PasskeyModels
  /\ smp.cb.cert_failure = SMP_SUCCESS
  /\ smp.evts # <<>>
  /\ smp.evts[1].n = "SMP_RAND_EVT"
  /\ smp.evts[1].state = "SMP_STATE_WAIT_NONCE"
  /\ smp_check_commitment(smp.cb)
  /\ smp.cb.round = 20
  /\ Phase1Complete(smp)
  /\ ~AuthCmpl(smp, SMP_CONFIRM_VALUE_ERR)

\* a round of passkey entry has ended on a commitment mismatch
C30_WitnessMismatch ==
  /\ smp.cb.selected_association_model \in PasskeyModels
  /\ smp.cb.cert_failure = SMP_SUCCESS
  /\ smp.evts # <<>>
  /\ smp.evts[1].n = "SMP_RAND_EVT"
  /\ smp.evts[1].state = "SMP_STATE_WAIT_NONCE"
  /\ ~smp_check_commitment(smp.cb)
  /\ smp.cb.round = 3
  /\ AuthCmpl(smp, SMP_CONFIRM_VALUE_ERR)
  /\ smp.cb.state = "SMP_STATE_IDLE"

\* the association models in which only the responder commits
NcModels == {"SMP_MODEL_SEC_CONN_JUSTWORKS", "SMP_MODEL_SEC_CONN_NUM_COMP"}

\* the input has put the PDU on the channel
CmdSent(m, cmd_code) == \E i \in 1..Len(m.tx) : m.tx[i] = cmd_code

\* the input is the PDU of the event received in the state; with_length:
\* and of the length of its opcode
PduHandled(m, event, state, cmd_code, with_length) ==
  /\ m.ext = "smp_data_received"
  /\ m.evts # <<>>
  /\ m.evts[1].n = event
  /\ m.evts[1].state = state
  /\ with_length => m.evts[1].rcvd_cmd_len = smp_cmd_size_per_spec[cmd_code]

\* the order of commitment and nonces over one input, from the block before
\* it to the engine after it
NonceOrder(before, m, with_length) ==
  before.selected_association_model \in NcModels =>
    /\ before.role = HCI_ROLE_SLAVE =>
         /\ CmdSent(m, SMP_OPCODE_RAND) =>
              /\ before.state = "SMP_STATE_WAIT_NONCE"
              /\ PduHandled(m, "SMP_RAND_EVT", "SMP_STATE_WAIT_NONCE",
                            SMP_OPCODE_RAND, with_length)
         /\ (before.state # "SMP_STATE_WAIT_NONCE"
               /\ m.cb.state = "SMP_STATE_WAIT_NONCE") =>
              /\ CmdSent(m, SMP_OPCODE_PAIR_COMMITM)
              /\ ~CmdSent(m, SMP_OPCODE_RAND)
         /\ ~AuthCmpl(m, SMP_CONFIRM_VALUE_ERR)
    /\ before.role = HCI_ROLE_MASTER =>
         /\ CmdSent(m, SMP_OPCODE_RAND) =>
              \/ /\ "SMP_PAIR_FLAG_HAVE_PEER_COMM" \in before.flags
                 /\ m.ext = "smp_finish_nonce_generation"
              \/ PduHandled(m, "SMP_PAIR_COMMITM_EVT", "SMP_STATE_WAIT_COMMITMENT",
                            SMP_OPCODE_PAIR_COMMITM, with_length)
         /\ ~CmdSent(m, SMP_OPCODE_PAIR_COMMITM)
         /\ (PduHandled(m, "SMP_RAND_EVT", "SMP_STATE_WAIT_NONCE",
                        SMP_OPCODE_RAND, TRUE)
               /\ m.cmpl = <<>>) =>
              IF smp_check_commitment(m.cb)
                THEN ~AuthCmpl(m, SMP_CONFIRM_VALUE_ERR)
                ELSE /\ AuthCmpl(m, SMP_CONFIRM_VALUE_ERR)
                     /\ ~Phase1Complete(m)
                     /\ m.cb.state = "SMP_STATE_IDLE"
         /\ (Phase1Complete(m) /\ m.cmpl = <<>>) => smp_check_commitment(m.cb)

\* C31: in Secure Connections Just Works and Numeric Comparison the
\* responder sends its commitment on entering WAIT_NONCE and its nonce only
\* on a Pairing Random received there; the initiator sends its nonce only
\* with the commitment of the responder received (on the local nonce when
\* the commitment came first), sends no commitment, and is the only one to
\* fail with CONFIRM_VALUE_ERR, which it does on a mismatch and before
\* phase 1 completes.
C31_NonceOrder == [][NonceOrder(smp.cb, smp', TRUE)]_vars

\* the record of the device holds an authenticated BR/EDR link key and an
\* LE key that is not authenticated
BrKeyStronger(sec_flags) ==
  BTM_SEC_LINK_KEY_AUTHED \in sec_flags /\ BTM_SEC_LE_LINK_KEY_AUTHED \notin sec_flags

\* C32: when the key distribution ends with derive_lk set, the link key is
\* derived from the LTK exactly when the record of the device does not hold
\* an authenticated BR/EDR key next to an unauthenticated LE key; derive_lk
\* is reset in both cases, and this happens at most once in a pairing.
C32_DeriveOnce ==
  /\ Len(smp.cb.lk_log) <= 1
  /\ \A i \in 1..Len(smp.cb.lk_log) :
       smp.cb.lk_log[i].called <=> ~BrKeyStronger(smp.cb.lk_log[i].sec_flags)
  /\ smp.cb.lk_log # <<>> => ~smp.cb.derive_lk

\* the distribution has ended with derive_lk set and the derivation blocked
C32_Witness ==
  /\ smp.cb.lk_log = <<[sec_flags |-> {BTM_SEC_LINK_KEY_AUTHED}, called |-> FALSE]>>
  /\ smp.cb.state = "SMP_STATE_BOND_PENDING"
  /\ smp.cb.le_secure_connections_mode_is_used
  /\ ~smp.cb.derive_lk

\* the distribution has ended with the link key derived, both keys being
\* authenticated
C32_WitnessDerived ==
  /\ smp.cb.lk_log = <<[sec_flags |-> BTM_SEC_KEY_AUTHED, called |-> TRUE]>>
  /\ smp.cb.state = "SMP_STATE_BOND_PENDING"
  /\ ~smp.cb.derive_lk

\* the Just Works models, legacy and Secure Connections
JustWorksModels == {"SMP_MODEL_ENCRYPTION_ONLY", "SMP_MODEL_SEC_CONN_JUSTWORKS"}

\* the models of passkey entry, OOB data and numeric comparison
AuthenticatedModels ==
  {"SMP_MODEL_PASSKEY", "SMP_MODEL_KEY_NOTIF", "SMP_MODEL_OOB",
   "SMP_MODEL_SEC_CONN_NUM_COMP", "SMP_MODEL_SEC_CONN_PASSKEY_ENT",
   "SMP_MODEL_SEC_CONN_PASSKEY_DISP", "SMP_MODEL_SEC_CONN_OOB"}

\* C33: the security level of the block is AUTHENTICATED only with a
\* passkey, OOB or numeric comparison model selected; with a Just Works
\* model selected it is not set or UNAUTHENTICATE.
C33_SecLevel ==
  /\ smp.cb.sec_level = SMP_SEC_AUTHENTICATED =>
       smp.cb.selected_association_model \in AuthenticatedModels
  /\ smp.cb.selected_association_model \in JustWorksModels =>
       smp.cb.sec_level \in {SMP_SEC_NONE, SMP_SEC_UNAUTHENTICATE}

\* both sides have asked for Secure Connections
BothSc(cb) == SMP_SC_SUPPORT_BIT \in (cb.loc_auth_req \cap cb.peer_auth_req)

\* the input has put a random value of the peer into the block
RandStored(before, m) ==
  m.cb.rrand # before.rrand /\ m.cb.rrand # SmpZeroCb.rrand

\* a Pairing Random over one input of a legacy pairing, from the engine
\* before it to the engine after it: without a Pairing Confirm sent in the
\* pairing it ends the pairing and is not stored
RandAfterConfirm(before, m) ==
  ~BothSc(before.cb) =>
    /\ (/\ \/ PduHandled(m, "SMP_RAND_EVT", "SMP_STATE_RAND", SMP_OPCODE_RAND, FALSE)
           \/ PduHandled(m, "SMP_RAND_EVT", "SMP_STATE_CONFIRM", SMP_OPCODE_RAND, FALSE)
        /\ ~before.cfm_sent)
         => /\ AuthCmpl(m, SMP_INVALID_PARAMETERS)
            /\ ~RandStored(before.cb, m)
    /\ RandStored(before.cb, m) => before.cfm_sent

\* C36: in legacy pairing a Pairing Random that arrives before the local
\* Pairing Confirm was sent ends the pairing with SMP_INVALID_PARAMETERS and
\* is not stored, so a stored random value of the peer implies that the
\* local confirm was sent first
C36_RandAfterConfirm == [][RandAfterConfirm(smp, smp')]_vars

\* the masks that the events of one input have found in BOND_PENDING, in
\* the order of the events, never grow
MasksShrink(m) ==
  \A i \in 1..Len(m.evts) : \A j \in 1..Len(m.evts) :
    ( /\ i < j
      /\ m.evts[i].state = "SMP_STATE_BOND_PENDING"
      /\ m.evts[j].state = "SMP_STATE_BOND_PENDING" ) =>
      /\ m.evts[j].local_i_key \subseteq m.evts[i].local_i_key
      /\ m.evts[j].local_r_key \subseteq m.evts[i].local_r_key

\* the key distribution over one input, from the engine before it to the
\* engine after it
KeyDistribution(before, m) ==
  /\ (before.cb.state = "SMP_STATE_BOND_PENDING"
        /\ m.cb.state = "SMP_STATE_BOND_PENDING") =>
       /\ m.cb.local_i_key \subseteq before.cb.local_i_key
       /\ m.cb.local_r_key \subseteq before.cb.local_r_key
  /\ MasksShrink(m)
  /\ m.cb.state = "SMP_STATE_BOND_PENDING" =>
       /\ \A i \in 1..Len(m.dist) : m.dist[i] \notin KeyToDist(m.cb)
       /\ m.cb.role = HCI_ROLE_SLAVE => m.cb.local_r_key = {}
  /\ Len(m.dist) <= SMP_KEY_DIST_TYPE_MAX
  /\ \A i \in 1..Len(m.dist) : \A j \in 1..Len(m.dist) :
       i # j => m.dist[i] # m.dist[j]

C37_WitnessInitiator ==
  /\ smp.cb.state = "SMP_STATE_BOND_PENDING"
  /\ smp.cb.role = HCI_ROLE_MASTER
  /\ smp.ext = "smp_data_received"
  /\ Len(smp.dist) >= 2
  /\ smp.cb.local_i_key = {}

\* Secure Connections is in use on the LE transport
ScOnLe(cb) == cb.le_secure_connections_mode_is_used /\ ~cb.smp_over_br

\* the link key over one input, from the engine before it to the engine
\* after it: the flag is set, the dispatcher of LK is called and the link
\* key is derived under Secure Connections on the LE transport only
LinkKeyOnlySc(before, m) ==
  /\ m.cb.derive_lk => ScOnLe(m.cb)
  /\ ( /\ Len(m.dist) > Len(before.dist)
       /\ \E i \in (Len(before.dist) + 1)..Len(m.dist) :
            m.dist[i] = SMP_SEC_KEY_TYPE_LK ) => ScOnLe(before.cb)
  /\ ( /\ Len(m.cb.lk_log) > Len(before.cb.lk_log)
       /\ m.cb.lk_log[Len(m.cb.lk_log)].called ) => ScOnLe(before.cb)

\* C38: derive_lk is set only while Secure Connections is in use on the LE
\* transport: in a legacy pairing the dispatcher of LK is not called,
\* derive_lk stays false and no link key is derived from the LTK
C38_LinkKeyOnlySc == [][LinkKeyOnlySc(smp, smp')]_vars

\* the events of the input that the state machine has handled with
\* smp_send_pair_fail
PairFails(m) ==
  {i \in 1..Len(m.evts) : /\ m.evts[i].n = "SMP_AUTH_CMPL_EVT"
                          /\ m.evts[i].state # "SMP_STATE_IDLE"}

\* the reasons that the Core Specification defines
OnWire(status) == status # SMP_SUCCESS /\ status <= SMP_MAX_FAIL_RSN_PER_SPEC

\* the status is what the application is told, or what the block keeps
\* while a PDU waits for its acknowledgement
Recorded(m, status) ==
  \/ \E j \in 1..Len(m.cmpl) : m.cmpl[j].reason = status
  \/ m.cb.status = status /\ m.cb.failure = status

\* one Pairing Failed for each failure with a reason of the Core
\* Specification and none for the others; every status is recorded
PairFailOnWire(m) ==
  /\ Cardinality({i \in 1..Len(m.tx) : m.tx[i] = SMP_OPCODE_PAIRING_FAILED})
       = Cardinality({i \in PairFails(m) : OnWire(m.evts[i].status)})
  /\ \A i \in PairFails(m) : Recorded(m, m.evts[i].status)
  /\ m.ext = "L2capDisconnected" =>
       /\ m.tx = <<>>
       /\ \A j \in 1..Len(m.cmpl) : m.cmpl[j].reason \in {SMP_CONN_TOUT, SMP_FAIL}

\* C39: smp_send_pair_fail sends Pairing Failed if and only if the status
\* is not zero and not above SMP_MAX_FAIL_RSN_PER_SPEC; the statuses above
\* it (SMP_UNKNOWN_IO_CAP, SMP_ENC_FAIL, SMP_FAIL, SMP_CONN_TOUT) are
\* recorded as the status of the pairing and not sent
C39_PairFailOnWire == PairFailOnWire(smp)

\* a failure of the encryption has ended the pairing: the application is
\* told SMP_ENC_FAIL and no Pairing Failed was sent
C39_Witness ==
  /\ \E i \in PairFails(smp) : smp.evts[i].status = SMP_ENC_FAIL
  /\ ~CmdSent(smp, SMP_OPCODE_PAIRING_FAILED)
  /\ \E j \in 1..Len(smp.cmpl) : smp.cmpl[j].reason = SMP_ENC_FAIL

\* a reason of the Core Specification has gone out in a Pairing Failed
C39_WitnessSent ==
  /\ \E i \in PairFails(smp) : smp.evts[i].status = SMP_INVALID_PARAMETERS
  /\ CmdSent(smp, SMP_OPCODE_PAIRING_FAILED)
  /\ smp.cb.status = SMP_INVALID_PARAMETERS

(***************************************************************************)
(* SpecCfg: service capabilities on the signaling channel.  A SEP          *)
(* configuration is built into bytes (avdt_msg_bld_cfg) or the peer sends  *)
(* bytes of its own; the bytes are parsed (avdt_msg_prs_cfg) or arrive as  *)
(* the parameters of a Set-Configuration command (avdt_msg_ind).           *)
(***************************************************************************)

\* memcpy(*p, info, len): len bytes of a zero-initialised array
CopyOf(info, len) == [i \in 1..len |-> ByteAt(info, i - 1)]

avdt_msg_bld_cfg(p_cfg) ==
  LET elem(cat) == IF cat \in p_cfg.psc_mask THEN <<cat, 0>> ELSE <<>>
      clen == (ByteAt(p_cfg.codec_info, 0) + 1) % 256
      plen == (ByteAt(p_cfg.protect_info, 0) + 1) % 256
  IN elem(AVDT_CAT_TRANS)
     \o elem(AVDT_CAT_REPORT)
     \o (IF p_cfg.num_codec # 0
           THEN <<AVDT_CAT_CODEC>>
                \o CopyOf(p_cfg.codec_info,
                          IF clen > AVDT_CODEC_SIZE THEN AVDT_CODEC_SIZE ELSE clen)
           ELSE <<>>)
     \o (IF p_cfg.num_protect # 0
           THEN <<AVDT_CAT_PROTECT>>
                \o CopyOf(p_cfg.protect_info,
                          IF plen > AVDT_PROTECT_SIZE THEN AVDT_PROTECT_SIZE ELSE plen)
           ELSE <<>>)
     \o elem(AVDT_CAT_DELAY_RPT)

\* the codec elements and content protection elements explored, each with
\* its length byte first as codec_info and protect_info hold them
CodecInfos == {<<2, 1, 8>>, <<3, 1, 8, 0>>}
ProtectElems == {<<2, 1, 0>>, <<2, 2, 0>>}
ProtectInfos ==
  {<<>>} \cup ProtectElems \cup {a \o b : a \in ProtectElems, b \in ProtectElems}

\* the valid configurations of a stream end point: service categories of
\* the configuration mask, one codec, content protection elements that fit
SepCfgs ==
  {[EmptyCfg EXCEPT !.psc_mask = psc, !.num_codec = 1, !.codec_info = ci,
                    !.num_protect = Len(pi) \div 3, !.protect_info = pi] :
     psc \in SUBSET AVDT_PSC, ci \in CodecInfos, pi \in ProtectInfos}

\* information elements a peer may send, well-formed or not
PeerElems ==
  {<<AVDT_CAT_TRANS, 0>>, <<AVDT_CAT_TRANS, 1, 0>>, <<AVDT_CAT_RECOV, 3, 1, 1, 1>>,
   <<AVDT_CAT_PROTECT, 2, 1, 0>>, <<AVDT_CAT_HDRCMP, 1, 0>>,
   <<AVDT_CAT_CODEC, 2, 1, 8>>, <<AVDT_CAT_CODEC, 1, 1>>,
   <<AVDT_CAT_CODEC, 5, 1, 8, 0, 0, 0>>, <<AVDT_CAT_MUX, 3, 0, 0, 0>>,
   <<AVDT_CAT_DELAY_RPT, 0>>, <<0, 0>>, <<AVDT_CAT_MAX_CUR + 1, 1, 0>>}

\* the bytes a peer may send as service capabilities: up to two elements,
\* complete or cut short
CfgBytes ==
  LET whole == PeerElems \cup {a \o b : a \in PeerElems, b \in PeerElems}
  IN {SubSeq(w, 1, Min(n, Len(w))) : w \in whole, n \in 0..MaxCfgLen}

\* the two SEIDs that lead a Set-Configuration command (each in the high six
\* bits of its byte), or fewer bytes than that
SetConfigHeads == {<<>>, <<4>>, <<4, 4>>, <<8, 4>>, <<4, 0>>}

InitCfg ==
  /\ ccb = [InitCcb(MaxPeerMtu, 3) EXCEPT !.idle_ccb_timer = TRUE]
  /\ peer_ccb = InitCcb(MinPeerMtu, 0)
  /\ wire = <<>>
  /\ orig = NULL
  /\ rxd = <<>>
  /\ ind = NoInd
  /\ run = NoRun
  /\ prs = NoPrs
  /\ xmit = NoSent
  /\ smp = SmpIdle(HCI_ROLE_MASTER, FALSE, "model")
  /\ avct = AvctIdle

\* the configuration of a stream end point is built into a message; a run
\* follows one message
BldCfg ==
  /\ wire = <<>>
  /\ prs = NoPrs
  /\ \E c \in SepCfgs :
       prs' = [NoPrs EXCEPT !.cfg = c, !.d = avdt_msg_bld_cfg(c)]
  /\ ind' = NoInd
  /\ UNCHANGED <<ccb, peer_ccb, wire, orig, rxd, run, xmit, smp, avct>>

\* the peer has built service capabilities of its own
PeerCfg ==
  /\ wire = <<>>
  /\ prs = NoPrs
  /\ \E d \in CfgBytes :
       prs' = [NoPrs EXCEPT !.d = d]
  /\ ind' = NoInd
  /\ UNCHANGED <<ccb, peer_ccb, wire, orig, rxd, run, xmit, smp, avct>>

\* avdt_msg_prs_cfg on the bytes, with a fresh configuration to fill in
PrsCfg ==
  /\ wire = <<>>
  /\ prs # NoPrs
  /\ prs.out = NULL
  /\ \E sig_id \in {AVDT_SIG_GETCAP, AVDT_SIG_SETCONFIG, AVDT_SIG_RECONFIG} :
       prs' = [prs EXCEPT !.fn = "avdt_msg_prs_cfg", !.sig_id = sig_id,
                          !.out = avdt_msg_prs_cfg(EmptyCfg, prs.d, sig_id)]
  /\ UNCHANGED <<ccb, peer_ccb, wire, orig, rxd, ind, run, xmit, smp, avct>>

\* the bytes go out as the parameters of a Set-Configuration command
SndSetConfig ==
  /\ wire = <<>>
  /\ prs # NoPrs
  /\ prs.out = NULL
  /\ \E head \in SetConfigHeads :
       wire' = << <<AVDT_MSG_BLD_HDR(LabelL, AVDT_PKT_TYPE_SINGLE, AVDT_MSG_TYPE_CMD),
                    AVDT_SIG_SETCONFIG>>
                  \o head
                  \o (IF Len(head) < AVDT_LEN_SETCONFIG_MIN THEN <<>> ELSE prs.d) >>
  /\ ind' = NoInd
  /\ UNCHANGED <<ccb, peer_ccb, orig, rxd, run, prs, xmit, smp, avct>>

\* the parsers of a message's parameters, each with a signal it parses
ParserCalls ==
  {<<"avdt_msg_prs_single", AVDT_SIG_OPEN>>,
   <<"avdt_msg_prs_setconfig_cmd", AVDT_SIG_SETCONFIG>>,
   <<"avdt_msg_prs_reconfig_cmd", AVDT_SIG_RECONFIG>>,
   <<"avdt_msg_prs_multi", AVDT_SIG_START>>,
   <<"avdt_msg_prs_security_cmd", AVDT_SIG_SECURITY>>,
   <<"avdt_msg_prs_discover_rsp", AVDT_SIG_DISCOVER>>,
   <<"avdt_msg_prs_delay_rpt", AVDT_SIG_DELAY_RPT>>,
   <<"avdt_msg_prs_rej", AVDT_SIG_DISCOVER>>,
   <<"avdt_msg_prs_rej", AVDT_SIG_SETCONFIG>>,
   <<"avdt_msg_prs_rej", AVDT_SIG_START>>}

\* the bytes that lead the parameters: SEIDs, a SEID and a delay, or nothing
MsgHeads == SetConfigHeads \cup {<<4, 0, 5>>, <<4, 8>>}

\* the message a parser fills in: a configuration to parse into and room
\* for the entries of a discover response
PrsMsg == [EmptyMsg EXCEPT !.p_cfg = EmptyCfg, !.num_seps = AVDT_NUM_SEPS]

\* the parser fn called on the len = Len(d) bytes d of a message of signal sig
CallParser(fn, sig, d) ==
  CASE fn = "avdt_msg_prs_single" -> avdt_msg_prs_single(PrsMsg, d)
    [] fn = "avdt_msg_prs_setconfig_cmd" -> avdt_msg_prs_setconfig_cmd(PrsMsg, d)
    [] fn = "avdt_msg_prs_reconfig_cmd" -> avdt_msg_prs_reconfig_cmd(PrsMsg, d)
    [] fn = "avdt_msg_prs_multi" -> avdt_msg_prs_multi(PrsMsg, d)
    [] fn = "avdt_msg_prs_security_cmd" -> avdt_msg_prs_security_cmd(PrsMsg, d)
    [] fn = "avdt_msg_prs_discover_rsp" -> avdt_msg_prs_discover_rsp(PrsMsg, d)
    [] fn = "avdt_msg_prs_delay_rpt" -> avdt_msg_prs_delay_rpt(PrsMsg, d)
    [] fn = "avdt_msg_prs_rej" -> avdt_msg_prs_rej(PrsMsg, d, sig)

\* a parser of message parameters runs on bytes of the peer
PrsParams ==
  /\ wire = <<>>
  /\ prs # NoPrs
  /\ prs.cfg = NULL
  /\ prs.out = NULL
  /\ \E call \in ParserCalls, head \in MsgHeads :
       LET d == head \o prs.d
       IN prs' = [cfg |-> NULL, d |-> d, fn |-> call[1], sig_id |-> call[2],
                  out |-> CallParser(call[1], call[2], d)]
  /\ UNCHANGED <<ccb, peer_ccb, wire, orig, rxd, ind, run, xmit, smp, avct>>

NextCfg == BldCfg \/ PeerCfg \/ PrsCfg \/ PrsParams \/ SndSetConfig \/ RcvPkt

SpecCfg == InitCfg /\ [][NextCfg]_vars

\* the information elements of category cat in the bytes d from position p
\* (0-based), each element a category, a length and that many bytes
RECURSIVE NumElems(_, _, _)
NumElems(d, p, cat) ==
  IF p >= Len(d) THEN 0
  ELSE (IF d[p + 1] = cat THEN 1 ELSE 0) + NumElems(d, p + 2 + ByteAt(d, p + 1), cat)

\* the packet in flight is a Set-Configuration command in one packet
SetConfigCmd(pkt) ==
  /\ Len(pkt) >= AVDT_LEN_TYPE_SINGLE
  /\ PktType(pkt) = AVDT_PKT_TYPE_SINGLE
  /\ AVDT_MSG_PRS_MSG_TYPE(pkt[1]) = AVDT_MSG_TYPE_CMD
  /\ AVDT_MSG_PRS_SIG(pkt[2]) = AVDT_SIG_SETCONFIG

\* what avdt_msg_prs_setconfig_cmd returns for the parameters of the command,
\* called as avdt_msg_ind calls it
SetConfigPrs(pkt) ==
  avdt_msg_prs_setconfig_cmd(
    [EmptyMsg EXCEPT !.label = AVDT_MSG_PRS_LABEL(pkt[1]),
                     !.sig_id = AVDT_SIG_SETCONFIG, !.p_cfg = EmptyCfg],
    SubSeq(pkt, AVDT_LEN_TYPE_SINGLE + 1, Len(pkt)))

\* a Set-Configuration event for a stream
SetConfigEvt(e) == e.to = "scb" /\ e.evt = "AVDT_SCB_MSG_SETCONFIG_CMD_EVT"

\* the parts of C11; every_error says whether the two error codes are claimed
\* whatever else is wrong with the command
NoCodec(every_error) ==
  RcvStep =>
    LET pkt == Head(wire)
        d == SubSeq(pkt, AVDT_LEN_TYPE_SINGLE + 1, Len(pkt))
        r == SetConfigPrs(pkt)
        sound == /\ Len(d) >= AVDT_LEN_SETCONFIG_MIN
                 /\ avdt_scb_by_hdl(AVDT_MSG_PRS_SEID(d[1]))
                 /\ AVDT_MSG_PRS_SEID(d[2]) \in AVDT_SEID_MIN..AVDT_SEID_MAX
                 /\ avdt_msg_prs_cfg(EmptyCfg, SubSeq(d, 3, Len(d)),
                                     AVDT_SIG_SETCONFIG).err \in {0, AVDT_ERR_CATEGORY}
    IN (SetConfigCmd(pkt) /\ NumElems(d, AVDT_LEN_SETCONFIG_MIN, AVDT_CAT_CODEC) = 0) =>
         /\ r.err # 0
         /\ (every_error \/ sound) => r.err \in {AVDT_ERR_CATEGORY, AVDT_ERR_INVALID_CAP}
         /\ \A i \in 1..Len(ind'.events) : ~SetConfigEvt(ind'.events[i])

\* C11 (as amended): every Set-Configuration command that contains zero codec
\* information elements is rejected by avdt_msg_prs_setconfig_cmd, with error
\* code BAD_SERV_CATEGORY or INVALID_CAPABILITIES when its length, its SEIDs
\* and the format of its elements pass the checks made before, and no
\* set-configuration event reaches an SCB for it.
C11_NoCodec == [][NoCodec(FALSE)]_vars

\* C11 as stated: the error code is one of the two whatever else is wrong
C11_NoCodecTwoCodes == [][NoCodec(TRUE)]_vars

\* a Set-Configuration command with media transport and no codec was
\* rejected with INVALID_CAPABILITIES and raised no event
C11_Witness ==
  /\ prs.d = <<AVDT_CAT_TRANS, 0>>
  /\ ind.ret
  /\ ind.events = <<>>
  /\ Len(ind.rsp_q) = 1
  /\ ind.rsp_q[1].event = AVDT_SIG_SETCONFIG
  /\ ind.rsp_q[1].layer_specific.msg = AVDT_MSG_TYPE_REJ
  /\ Bytes(ind.rsp_q[1]) = <<AVDT_CAT_TRANS, AVDT_ERR_INVALID_CAP>>

\* C12: for every valid SEP configuration c, parsing with avdt_msg_prs_cfg the
\* bytes that avdt_msg_bld_cfg produced from c succeeds and yields a
\* configuration equal to c.
C12_CfgRoundTrip ==
  (prs.cfg # NULL /\ prs.out # NULL) =>
    /\ prs.out.err = 0
    /\ prs.out.cfg = prs.cfg

\* the information element at position p (0-based) of the service
\* capabilities d is cut short: d ends before the two bytes that lead it or
\* before the bytes that follow them, where the elements before it were
\* parsed without error.  With whole, the bytes that follow are those the
\* element's length announces; otherwise they are those avdt_msg_prs_cfg
\* takes from an element of its category.
RECURSIVE CutShort(_, _, _, _)
CutShort(d, p, sig_id, whole) ==
  IF p >= Len(d) THEN FALSE
  ELSE IF avdt_msg_prs_cfg(EmptyCfg, SubSeq(d, 1, p), sig_id).err # 0 THEN FALSE
  ELSE IF Len(d) - p < AVDT_LEN_CFG_MIN THEN TRUE
  ELSE
    LET elem == d[p + 1]
        elem_len == d[p + 2]
        taken == CASE elem \in {AVDT_CAT_RECOV, AVDT_CAT_PROTECT, AVDT_CAT_HDRCMP} -> elem_len
                   [] elem = AVDT_CAT_CODEC -> Min(elem_len, AVDT_CODEC_SIZE - 1)
                   [] OTHER -> 0
        need == IF whole THEN elem_len ELSE taken
    IN IF elem = 0 \/ elem > AVDT_CAT_MAX_CUR
         THEN /\ sig_id \notin {AVDT_SIG_SETCONFIG, AVDT_SIG_RECONFIG}
              /\ \/ p + 2 + need > Len(d)
                 \/ CutShort(d, p + 2 + elem_len, sig_id, whole)
       ELSE IF elem_len > avdt_msg_ie_len_max(elem) \/ elem_len < avdt_msg_ie_len_min(elem)
         THEN FALSE
       ELSE \/ p + 2 + need > Len(d)
            \/ CutShort(d, p + 2 + elem_len, sig_id, whole)

\* the len = Len(d) bytes d are too short for a field of what the parser fn
\* parses, where the fields before it passed the parser's checks
TooShort(fn, sig, d, whole) ==
  CASE fn = "avdt_msg_prs_cfg" -> CutShort(d, 0, sig, whole)
    [] fn = "avdt_msg_prs_single" -> Len(d) < AVDT_LEN_SINGLE
    [] fn = "avdt_msg_prs_setconfig_cmd" ->
         \/ Len(d) < AVDT_LEN_SETCONFIG_MIN
         \/ /\ avdt_scb_by_hdl(AVDT_MSG_PRS_SEID(d[1]))
            /\ AVDT_MSG_PRS_SEID(d[2]) \in AVDT_SEID_MIN..AVDT_SEID_MAX
            /\ CutShort(SubSeq(d, 3, Len(d)), 0, sig, whole)
    [] fn = "avdt_msg_prs_reconfig_cmd" ->
         \/ Len(d) < AVDT_LEN_RECONFIG_MIN
         \/ /\ avdt_scb_by_hdl(AVDT_MSG_PRS_SEID(d[1]))
            /\ CutShort(SubSeq(d, 2, Len(d)), 0, sig, whole)
    [] fn = "avdt_msg_prs_multi" -> Len(d) < AVDT_LEN_MULTI_MIN
    [] fn = "avdt_msg_prs_security_cmd" -> Len(d) < AVDT_LEN_SECURITY_MIN
    [] fn = "avdt_msg_prs_discover_rsp" -> whole /\ Len(d) % 2 = 1
    [] fn = "avdt_msg_prs_rej" ->
         Len(d) < (IF sig \in {AVDT_SIG_SETCONFIG, AVDT_SIG_RECONFIG,
                               AVDT_SIG_START, AVDT_SIG_SUSPEND} THEN 2 ELSE 1)
    [] fn = "avdt_msg_prs_delay_rpt" -> Len(d) < AVDT_LEN_DELAY_RPT

\* the error codes that tables of the information elements give
CategoryCodes == {avdt_msg_ie_err(elem) : elem \in 1..AVDT_CAT_MAX_CUR}

\* a parser that ran read only bytes of its input, and returned one of the
\* codes for an input too short
ReadsInLength(whole, codes) ==
  prs.out # NULL =>
    /\ prs.out.rd <= Len(prs.d)
    /\ TooShort(prs.fn, prs.sig_id, prs.d, whole) => prs.out.err \in codes

\* C17 (as amended): for every input buffer and every length, each AVDTP
\* parser reads only bytes at positions below the given length; an input too
\* short for the bytes the parser takes from a field yields a non-zero error
\* code (BAD_LENGTH or BAD_PAYLOAD_FORMAT) instead of a read past the end.
C17_ReadsInLength == ReadsInLength(FALSE, {AVDT_ERR_LENGTH, AVDT_ERR_PAYLOAD})

\* C17 as stated: an input too short for a field as its length announces it
\* yields BAD_LENGTH or the code of a category
C17_ShortFieldCodes == ReadsInLength(TRUE, {AVDT_ERR_LENGTH} \cup CategoryCodes)

\* avdt_msg_prs_cfg met a codec element of two bytes with one byte left,
\* read the two bytes that lead it and returned BAD_LENGTH
C17_Witness ==
  /\ prs.fn = "avdt_msg_prs_cfg"
  /\ prs.d = <<AVDT_CAT_CODEC, 2, 1>>
  /\ prs.out # NULL
  /\ prs.out.err = AVDT_ERR_LENGTH
  /\ prs.out.rd = 2

\* avdt_msg_prs_setconfig_cmd has accepted the parameters prs.d
SetConfigAccepted ==
  /\ prs.fn = "avdt_msg_prs_setconfig_cmd"
  /\ prs.out # NULL
  /\ prs.out.err = 0

\* C26: a Set-Configuration command that avdt_msg_prs_setconfig_cmd accepts
\* names exactly one codec element and no service category outside the
\* configuration mask AVDT_PSC; with two or more codec elements it is not
\* accepted
C26_OneCodec ==
  SetConfigAccepted =>
    /\ NumElems(prs.d, AVDT_LEN_SETCONFIG_MIN, AVDT_CAT_CODEC) = 1
    /\ prs.out.msg.p_cfg.num_codec = 1
    /\ prs.out.msg.p_cfg.psc_mask \subseteq AVDT_PSC

\* a category that avdt_msg_prs_cfg does not know
UnknownCat(cat) == cat = 0 \/ cat > AVDT_CAT_MAX_CUR

\* the positions (0-based) in d, from p on, at which an information element
\* starts with its category and length bytes present, each element as long
\* as it declares
RECURSIVE ElemStarts(_, _)
ElemStarts(d, p) ==
  IF p + AVDT_LEN_CFG_MIN > Len(d) THEN {}
  ELSE {p} \cup ElemStarts(d, p + AVDT_LEN_CFG_MIN + d[p + 2])

\* d without the element that starts at position k
ElemRemoved(d, k) ==
  SubSeq(d, 1, k) \o SubSeq(d, k + AVDT_LEN_CFG_MIN + d[k + 2] + 1, Len(d))

\* C27: avdt_msg_prs_cfg on bytes that hold an element of unknown category
\* (0, or above AVDT_CAT_MAX_CUR): in a Set-Configuration or Reconfigure
\* command the parse fails with AVDT_ERR_CATEGORY once the elements before it
\* are parsed; in a capabilities response the element is skipped: the error
\* and the configuration are those of the bytes without the element, and no
\* unknown category is in the service mask
C27_UnknownCategory ==
  (prs.fn = "avdt_msg_prs_cfg" /\ prs.out # NULL) =>
    LET d == prs.d
        ks == {k \in ElemStarts(d, 0) : UnknownCat(d[k + 1])}
    IN ks # {} =>
         IF prs.sig_id \in {AVDT_SIG_SETCONFIG, AVDT_SIG_RECONFIG}
           THEN LET k == CHOOSE i \in ks : \A j \in ks : i <= j
                IN avdt_msg_prs_cfg(EmptyCfg, SubSeq(d, 1, k), prs.sig_id).err = 0 =>
                     prs.out.err = AVDT_ERR_CATEGORY
           ELSE /\ \A k \in ks :
                     LET r == avdt_msg_prs_cfg(EmptyCfg, ElemRemoved(d, k), prs.sig_id)
                     IN prs.out.err = r.err /\ prs.out.cfg = r.cfg
                /\ \A cat \in prs.out.cfg.psc_mask : ~UnknownCat(cat)

\* a capabilities response with an element of category 9 before the Media
\* Transport element: parsed without error, Media Transport alone in the mask
C27_Witness ==
  /\ prs.fn = "avdt_msg_prs_cfg"
  /\ prs.sig_id = AVDT_SIG_GETCAP
  /\ prs.d = <<AVDT_CAT_MAX_CUR + 1, 1, 0, AVDT_CAT_TRANS, 0>>
  /\ prs.out.err = 0
  /\ prs.out.cfg.psc_mask = {AVDT_CAT_TRANS}

\* the bytes that the reassembly buffer holds after its header
\* (BT_DEFAULT_BUFFER_SIZE - sizeof(BT_HDR))
RxCapacity == RxBufSize - BT_HDR_SIZE

\* the packet in flight is a CONT or END packet that the reassembly in
\* progress has no room for
Overflows(pkt) ==
  /\ ValidPkt(pkt)
  /\ PktType(pkt) \in {AVDT_PKT_TYPE_CONT, AVDT_PKT_TYPE_END}
  /\ ccb.p_rx_msg # NULL
  /\ ccb.p_rx_msg.offset + Len(pkt) - AVDT_LEN_TYPE_CONT > RxCapacity

\* the packet in flight is a START packet too big for the reassembly buffer
OversizeStart(pkt) ==
  /\ ValidPkt(pkt)
  /\ PktType(pkt) = AVDT_PKT_TYPE_START
  /\ BT_HDR_SIZE + RxOffset + Len(pkt) > RxBufSize

AsmblCapacity ==
  /\ ccb'.p_rx_msg # NULL =>
       /\ Len(ccb'.p_rx_msg.data) <= RxCapacity
       /\ ccb'.p_rx_msg.offset <= RxCapacity
  /\ RcvStep =>
       LET pkt == Head(wire)
           nothing == ~ind'.ret /\ ind'.events = <<>> /\ ind'.rsp_q = <<>>
       IN /\ OversizeStart(pkt) => (ccb'.p_rx_msg = NULL /\ nothing)
          /\ Overflows(pkt) => (ccb'.p_rx_msg = NULL /\ nothing)
          /\ ( /\ Len(pkt) >= 1
               /\ PktType(pkt) \in {AVDT_PKT_TYPE_CONT, AVDT_PKT_TYPE_END}
               /\ ccb.p_rx_msg = NULL ) => (ccb'.p_rx_msg = NULL /\ nothing)

\* C19: in avdt_msg_asmbl the bytes gathered in the reassembly buffer never
\* exceed its capacity: a START packet bigger than the buffer is dropped and
\* starts no reassembly; a CONT or END packet that the buffer has no room for
\* discards the reassembly in progress and is not delivered, and the CONT and
\* END packets that follow are dropped while no reassembly is in progress
\* (until a START), so that no event reaches a stream for the message.
C19_AsmblCapacity == [][AsmblCapacity]_vars

\* a CONT packet of a run in progress has found the buffer full: the
\* reassembly is gone and nothing was delivered
C19_Witness ==
  /\ run.open
  /\ run.last = AVDT_PKT_TYPE_CONT
  /\ ccb.p_rx_msg = NULL
  /\ wire = <<>>
  /\ ~ind.ret

\* avdt_ccb_snd_msg hands a message to avdt_msg_send, which writes at least
\* its first packet
SendStep == ~ccb.cong /\ ccb.p_curr_msg = NULL /\ wire = <<>> /\ wire' # <<>>

\* the count in the START packet of a message of len bytes, as sent: the
\* bytes and two more over the bytes a packet carries after its first byte,
\* rounded down, plus one
NospSent(len, peer_mtu) == ((len + 2) \div (peer_mtu - 1) + 1) % 256

\* ceil((len + 1) / (peer_mtu - 1)) + 1
NospStated(len, peer_mtu) == (len + 1 + (peer_mtu - 2)) \div (peer_mtu - 1) + 1

\* the first packet of a message too long for one packet is a START packet
\* with the count in its second byte
StartNosp(stated) ==
  (SendStep /\ orig'.len > ccb.peer_mtu - AVDT_LEN_TYPE_SINGLE) =>
    /\ PktType(wire'[1]) = AVDT_PKT_TYPE_START
    /\ wire'[1][2] = IF stated THEN NospStated(orig'.len, ccb.peer_mtu)
                               ELSE NospSent(orig'.len, ccb.peer_mtu)

\* C20 (as amended): for every message that avdt_msg_send fragments (body
\* length len greater than peer_mtu - 2), the number-of-signal-packets field
\* written in the START packet equals
\* floor((len + 3 - peer_mtu) / (peer_mtu - 1)) + 2, which is
\* floor((len + 2) / (peer_mtu - 1)) + 1, in eight bits.
C20_StartNosp == [][StartNosp(FALSE)]_vars

\* C20 as stated: the field equals ceil((len + 1) / (peer_mtu - 1)) + 1
C20_StartNospRoundedUp == [][StartNosp(TRUE)]_vars

\* a message of three bytes went out to a peer of MTU 4 as a START packet
\* that counts two packets and an END packet
C20_Witness ==
  /\ ccb.peer_mtu = 4
  /\ orig # NULL
  /\ orig.len = 3
  /\ Len(wire) = 2
  /\ PktType(wire[1]) = AVDT_PKT_TYPE_START
  /\ wire[1][2] = 2
  /\ PktType(wire[2]) = AVDT_PKT_TYPE_END

\* C21: for every message that avdt_msg_send fragments, the count written
\* in the START packet equals the number of packets transmitted for the
\* message (the START, every CONT and the END); observed where one call
\* hands over the whole message, congestion changing no packet's size.
C21_NospCountsPackets ==
  [][(/\ SendStep
      /\ orig'.len > ccb.peer_mtu - AVDT_LEN_TYPE_SINGLE
      /\ ccb'.p_curr_msg = NULL) =>
       /\ PktType(wire'[1]) = AVDT_PKT_TYPE_START
       /\ PktType(wire'[Len(wire')]) = AVDT_PKT_TYPE_END
       /\ wire'[1][2] = Len(wire')]_vars

(***************************************************************************)
(* avdt_msg_send across calls: xmit.pkts are the packets written for the   *)
(* message orig since avdt_ccb_snd_msg handed it over.                     *)
(***************************************************************************)
\* the message bytes a packet carries after its header
PktBody(pkt) == SubSeq(pkt, avdt_msg_pkt_type_len(PktType(pkt)) + 1, Len(pkt))

\* the message bytes of a run of packets, in the order written
RECURSIVE Bodies(_)
Bodies(pkts) ==
  IF pkts = <<>> THEN <<>> ELSE PktBody(Head(pkts)) \o Bodies(Tail(pkts))

\* the packets are a SINGLE, or a START followed by CONTs and, when the
\* message is complete, closed by one END
Fragments(pkts, complete) ==
  \/ complete /\ Len(pkts) = 1 /\ PktType(pkts[1]) = AVDT_PKT_TYPE_SINGLE
  \/ /\ PktType(pkts[1]) = AVDT_PKT_TYPE_START
     /\ complete => Len(pkts) >= 2
     /\ \A i \in 2..Len(pkts) :
          PktType(pkts[i]) = IF complete /\ i = Len(pkts)
                               THEN AVDT_PKT_TYPE_END ELSE AVDT_PKT_TYPE_CONT

\* the bytes of orig still to be written
Unsent == IF ccb.p_curr_msg = NULL THEN <<>> ELSE Bytes(ccb.p_curr_msg)

\* C22: the packets written for one message are a SINGLE or START CONT* END,
\* also when congestion interrupts the message and a later call resumes it;
\* no packet is written once the transport has reported congestion; the
\* bodies written and the bytes still held are the message, none twice and
\* none skipped; the current message is cleared exactly when its last byte
\* has been written
C22_Fragmentation ==
  orig # NULL =>
    /\ xmit.pkts # <<>>
    /\ Fragments(xmit.pkts, ccb.p_curr_msg = NULL)
    /\ ~xmit.late
    /\ Bodies(xmit.pkts) \o Unsent = Bytes(orig)
    /\ ccb.p_curr_msg = NULL <=> Len(Bodies(xmit.pkts)) = orig.len

\* a message of three packets written by three calls of avdt_msg_send, each
\* of the first two ended by congestion
C22_Witness ==
  /\ orig # NULL
  /\ ccb.p_curr_msg = NULL
  /\ Len(xmit.pkts) = 3
  /\ xmit.calls = 3
  /\ PktType(xmit.pkts[2]) = AVDT_PKT_TYPE_CONT

\* the step writes the last byte of the message orig'
Completes ==
  /\ ccb'.p_curr_msg = NULL
  /\ SendStep \/ ccb.p_curr_msg # NULL

\* C23: when avdt_msg_send writes the last byte of a message: a response or
\* reject touches no timer; a delay-report command arms no timer, whatever
\* the retransmission timeout; discover, get-capabilities, security-control
\* and, with retransmission timeout 0, every other command arm the response
\* timer and cancel the idle and retransmit timers; any other command arms
\* the retransmit timer and cancels the idle and response timers
C23_Timers ==
  [][Completes =>
       LET msg == orig'.layer_specific.msg
           sig == orig'.event
       IN IF msg # AVDT_MSG_TYPE_CMD
            THEN /\ ccb'.idle_ccb_timer = ccb.idle_ccb_timer
                 /\ ccb'.ret_ccb_timer = ccb.ret_ccb_timer
                 /\ ccb'.rsp_ccb_timer = ccb.rsp_ccb_timer
          ELSE IF sig = AVDT_SIG_DELAY_RPT
            THEN /\ ccb'.ret_ccb_timer => ccb.ret_ccb_timer
                 /\ ccb'.rsp_ccb_timer => ccb.rsp_ccb_timer
          ELSE IF \/ sig \in {AVDT_SIG_DISCOVER, AVDT_SIG_GETCAP, AVDT_SIG_SECURITY}
                  \/ ccb.ret_tout = 0
            THEN /\ ccb'.rsp_ccb_timer
                 /\ ~ccb'.idle_ccb_timer
                 /\ ~ccb'.ret_ccb_timer
          ELSE /\ ccb'.ret_ccb_timer
               /\ ~ccb'.idle_ccb_timer
               /\ ~ccb'.rsp_ccb_timer]_vars

\* C34: every packet avdt_msg_send has written for the message is at most
\* peer_mtu long, header and payload; a START and a CONT are exactly
\* peer_mtu long and an END carries at least one byte of the message
C34_PacketLength ==
  \A i \in 1..Len(xmit.pkts) :
    LET pkt == xmit.pkts[i]
    IN /\ Len(pkt) <= ccb.peer_mtu
       /\ PktType(pkt) \in {AVDT_PKT_TYPE_START, AVDT_PKT_TYPE_CONT} =>
            Len(pkt) = ccb.peer_mtu
       /\ PktType(pkt) = AVDT_PKT_TYPE_END => Len(PktBody(pkt)) >= 1

\* a message written as START, CONT and an END of one byte, under the
\* smallest MTU
C34_Witness ==
  /\ ccb.peer_mtu = MinPeerMtu
  /\ ccb.p_curr_msg = NULL
  /\ Len(xmit.pkts) = 3
  /\ PktType(xmit.pkts[1]) = AVDT_PKT_TYPE_START
  /\ PktType(xmit.pkts[2]) = AVDT_PKT_TYPE_CONT
  /\ PktType(xmit.pkts[3]) = AVDT_PKT_TYPE_END
  /\ Len(xmit.pkts[3]) = AVDT_LEN_TYPE_END + 1

(***************************************************************************)
(* avdt_msg_ind: commands that fail parsing, responses and rejects that    *)
(* are dropped.                                                            *)
(***************************************************************************)
\* the error code the command parser of signal sig returns for parameters d
CmdErr(sig, d) ==
  avdt_msg_prs_cmd(sig,
    [EmptyMsg EXCEPT !.p_cfg = IF sig \in {AVDT_SIG_SETCONFIG, AVDT_SIG_RECONFIG}
                                 THEN EmptyCfg ELSE @], d).err

\* the parts of C24; abort_too says whether a failing Abort is rejected like
\* any other command
CmdRejected(abort_too) ==
  (RcvStep /\ ind'.ret) =>
    LET m == ClosedMsg
        label == AVDT_MSG_PRS_LABEL(m[1])
        msg_type == AVDT_MSG_PRS_MSG_TYPE(m[1])
        sig == AVDT_MSG_PRS_SIG(m[2])
        err == CmdErr(sig, SubSeq(m, 3, Len(m)))
    IN (msg_type = AVDT_MSG_TYPE_CMD /\ sig \in 1..AVDT_SIG_MAX /\ err # 0) =>
         /\ ind'.events = <<>>
         /\ IF sig = AVDT_SIG_ABORT /\ ~abort_too
              THEN ind'.rsp_q = <<>>
              ELSE /\ Len(ind'.rsp_q) = 1
                   /\ ind'.rsp_q[1].event = sig
                   /\ ind'.rsp_q[1].layer_specific =
                        [label |-> label, msg |-> AVDT_MSG_TYPE_REJ]
                   /\ ind'.rsp_q[1].len >= 1
                   /\ Bytes(ind'.rsp_q[1])[ind'.rsp_q[1].len] = err

\* C24: a command that fails parsing is answered with exactly one reject that
\* carries the signal id and label of the command and the error code of the
\* parser, and no event is dispatched for it; a failing Abort command gets no
\* reject and no event
C24_CmdRejected == [][CmdRejected(FALSE)]_vars

\* an Open command without its stream id has been rejected with
\* AVDT_ERR_LENGTH under its own label
C24_Witness ==
  /\ ind.ret
  /\ ind.events = <<>>
  /\ Len(ind.rsp_q) = 1
  /\ ind.rsp_q[1].event = AVDT_SIG_OPEN
  /\ ind.rsp_q[1].layer_specific = [label |-> LabelOther, msg |-> AVDT_MSG_TYPE_REJ]
  /\ Bytes(ind.rsp_q[1]) = <<AVDT_ERR_LENGTH>>

\* the parts of C25; two_byte_rej says whether a reject of AVDT_LEN_GEN_REJ
\* bytes under the label of the outstanding command is among the rejects
\* that are dropped
Dropped(two_byte_rej) ==
  (RcvStep /\ ind'.ret) =>
    LET m == ClosedMsg
        label == AVDT_MSG_PRS_LABEL(m[1])
        msg_type == AVDT_MSG_PRS_MSG_TYPE(m[1])
        sig == AVDT_MSG_PRS_SIG(m[2])
        cur == ccb.p_curr_cmd
        gen_rej == /\ msg_type = AVDT_MSG_TYPE_REJ
                   /\ Len(m) = AVDT_LEN_GEN_REJ
                   /\ cur # NULL
                   /\ label = cur.layer_specific.label
        unexpected == cur = NULL \/ cur.event # sig
        kept == /\ ccb'.p_curr_cmd = cur
                /\ ccb'.idle_ccb_timer = ccb.idle_ccb_timer
                /\ ccb'.ret_ccb_timer = ccb.ret_ccb_timer
                /\ ccb'.rsp_ccb_timer = ccb.rsp_ccb_timer
    IN /\ ( /\ msg_type \in {AVDT_MSG_TYPE_RSP, AVDT_MSG_TYPE_REJ}
            /\ two_byte_rej \/ ~gen_rej
            /\ \/ unexpected
               \/ ~WellFormed(ccb, msg_type, sig, SubSeq(m, 3, Len(m))) ) =>
            /\ ind'.rsp_q = <<>>
            /\ ind'.events = <<>>
            /\ kept
            /\ ccb'.ret_count = ccb.ret_count
       /\ msg_type = AVDT_MSG_TYPE_CMD => kept

\* C25 (as amended): a response or reject that is unexpected (no outstanding
\* command, or another signal than the outstanding command's) or that fails
\* parsing is dropped, a two-byte reject under the label of the outstanding
\* command excepted: nothing is queued for the peer, no event is dispatched,
\* the outstanding command, the three timers and the retransmission counter
\* stay as they are; no inbound command stops a timer or releases the
\* outstanding command.
C25_Dropped == [][Dropped(FALSE)]_vars

\* C25 as stated: every unexpected or failing reject is dropped
C25_DroppedEveryReject == [][Dropped(TRUE)]_vars

\* a Start response has come in while the Open command of label LabelL is
\* outstanding: it is dropped, the command is still outstanding, its
\* retransmit timer runs and the retransmission counter is still 1
C25_Witness ==
  /\ ind.ret
  /\ ind.hdr = <<AVDT_MSG_BLD_HDR(LabelL, AVDT_PKT_TYPE_SINGLE, AVDT_MSG_TYPE_RSP),
                 AVDT_SIG_START>>
  /\ ind.rsp_q = <<>>
  /\ ind.events = <<>>
  /\ ccb.p_curr_cmd = Cmd(AVDT_SIG_OPEN, LabelL, 1)
  /\ ccb.ret_ccb_timer
  /\ ccb.ret_count = 1

\* what avdt_msg_ind has queued and dispatched for the packet it was handed;
\* own_event_first says whether the receive-response event has to follow
\* an event of the message itself
OneOutcome(own_event_first) ==
  /\ ~ind.ret => ind.rsp_q = <<>> /\ ind.events = <<>>
  /\ Len(ind.rsp_q) <= 1
  /\ \A i \in 1..Len(ind.rsp_q) :
       ind.rsp_q[i].layer_specific.msg \in {AVDT_MSG_TYPE_REJ, AVDT_MSG_TYPE_GRJ}
  /\ ind.rsp_q = <<>> \/ ind.events = <<>>
  /\ Len(ind.events) <= 2
  /\ \A i \in 1..Len(ind.events) :
       ind.events[i] = RcvRsp =>
         i = Len(ind.events) /\ (own_event_first => i = 2)
  /\ Len(ind.events) = 2 => ind.events[1] # RcvRsp /\ ind.events[2] = RcvRsp

\* C35: for a complete message avdt_msg_ind queues at most one message, a
\* reject or a general reject, and then dispatches no event; it dispatches
\* at most one event of the message and at most one receive-response event,
\* which comes after the event of the message when there is one.
C35_OneOutcome == OneOutcome(FALSE)

\* C35 with the receive-response event only ever after an event of the
\* message
C35_RcvRspAfterOwnEvent == OneOutcome(TRUE)

\* a response has been dispatched to its stream and the receive-response
\* event raised after it, nothing queued
C35_Witness ==
  /\ ind.ret
  /\ ind.rsp_q = <<>>
  /\ Len(ind.events) = 2
  /\ ind.events[1].to = "scb"
  /\ ind.events[2] = RcvRsp

\* a command has been answered with a general reject and nothing dispatched
C35_WitnessReject ==
  /\ ind.ret
  /\ Len(ind.rsp_q) = 1
  /\ ind.rsp_q[1].layer_specific.msg = AVDT_MSG_TYPE_GRJ
  /\ ind.events = <<>>
(***************************************************************************)
(* The AVCTP API: AVCT_CreateConn and AVCT_RemoveConn on the control       *)
(* blocks of avct_cb. The allocation of the blocks (avct_ccb.cc,           *)
(* avct_lcb.cc) and the state machine of a link (avct_lcb_act.cc) are      *)
(* outside the API file; a link is followed through the states of its      *)
(* L2CAP channel.                                                          *)
(***************************************************************************)
AvctAddrs == 1..(AVCT_NUM_LINKS + 1)   \* one peer more than there are links
AvctPids == {1, 2}
AvctCcs == [role : {AVCT_INT, AVCT_ACP}, pid : AvctPids]

\* a block with a field changed
AvctCcbSet(a, i, c) == [a EXCEPT !.ccb[i] = c]
AvctLcbSet(a, i, l) == [a EXCEPT !.lcb[i] = l]
AvctSent(a, evt, p_lcb, p_ccb) ==
  [a EXCEPT !.ret.evts = Append(@, [evt |-> evt, p_lcb |-> p_lcb, p_ccb |-> p_ccb])]

\* avct_ccb_alloc: the first block not allocated, or none
avct_ccb_alloc(a) ==
  LET free == {i \in DOMAIN a.ccb : ~a.ccb[i].allocated}
  IN IF free = {} THEN AvctNull ELSE CHOOSE i \in free : \A j \in free : i <= j

\* avct_ccb_dealloc with AVCT_NO_EVT: the block is zeroed
avct_ccb_dealloc(a, p_ccb) == AvctCcbSet(a, p_ccb, AvctZeroCcb)

\* avct_ccb_to_idx and avct_ccb_by_idx: the handle is the index of the block
avct_ccb_to_idx(p_ccb) == p_ccb
avct_ccb_by_idx(a, idx) ==
  IF idx < AVCT_NUM_CONN /\ a.ccb[idx].allocated THEN idx ELSE AvctNull

\* avct_lcb_by_bd: the allocated link of the peer, or none
avct_lcb_by_bd(a, bd_addr) ==
  LET found == {i \in DOMAIN a.lcb : a.lcb[i].allocated /\ a.lcb[i].peer_addr = bd_addr}
  IN IF found = {} THEN AvctNull ELSE CHOOSE i \in found : \A j \in found : i <= j

\* avct_lcb_alloc: the first link not allocated, or none
avct_lcb_alloc(a) ==
  LET free == {i \in DOMAIN a.lcb : ~a.lcb[i].allocated}
  IN IF free = {} THEN AvctNull ELSE CHOOSE i \in free : \A j \in free : i <= j

\* the connections bound to a link
AvctBound(a, p_lcb) ==
  {i \in DOMAIN a.ccb : a.ccb[i].allocated /\ a.ccb[i].p_lcb = p_lcb}

\* avct_lcb_has_pid: a connection bound to the link has the PID
avct_lcb_has_pid(a, p_lcb, pid) ==
  \E i \in AvctBound(a, p_lcb) : a.ccb[i].cc.pid = pid

\* avct_lcb_close_cfm: the channel is gone; the connections of an initiator
\* are released, those of an acceptor wait again, the link is released
avct_lcb_close_cfm(a, p_lcb) ==
  [a EXCEPT
     !.ccb = [i \in DOMAIN a.ccb |->
                IF i \notin AvctBound(a, p_lcb) THEN a.ccb[i]
                ELSE IF a.ccb[i].cc.role = AVCT_INT THEN AvctZeroCcb
                ELSE [a.ccb[i] EXCEPT !.p_lcb = AvctNull]],
     !.lcb[p_lcb] = AvctZeroLcb]

\* avct_lcb_event with AVCT_LCB_UL_BIND_EVT: an idle link opens its channel
\* (ok says whether L2CAP takes the request), a closing link refuses the
\* connection, an opening or open link keeps it
avct_lcb_bind(a, p_lcb, p_ccb, ok) ==
  LET b == AvctSent(a, "AVCT_LCB_UL_BIND_EVT", p_lcb, p_ccb)
      st == a.lcb[p_lcb].ch_state
  IN IF st = "AVCT_CH_IDLE"
       THEN IF ok THEN [b EXCEPT !.lcb[p_lcb].ch_state = "AVCT_CH_CONN"]
                  ELSE avct_lcb_close_cfm(b, p_lcb)
     ELSE IF st = "AVCT_CH_CLOSING" THEN avct_ccb_dealloc(b, p_ccb)
     ELSE b

\* avct_lcb_event with AVCT_LCB_UL_UNBIND_EVT: the connection is released
\* when the link has others or no channel; the last one of a link with a
\* channel closes the channel first
avct_lcb_unbind(a, p_lcb, p_ccb) ==
  LET b == AvctSent(a, "AVCT_LCB_UL_UNBIND_EVT", p_lcb, p_ccb)
      st == a.lcb[p_lcb].ch_state
  IN IF st \in {"AVCT_CH_CONN", "AVCT_CH_OPEN"} /\ AvctBound(a, p_lcb) = {p_ccb}
       THEN [b EXCEPT !.lcb[p_lcb].ch_state = "AVCT_CH_CLOSING"]
       ELSE avct_ccb_dealloc(b, p_ccb)

\* a creation that keeps the block when the PID is in use on the link
AVCT_CreateConn_pid_kept(a, p_cc, peer_addr, ok) ==
  LET p_ccb == avct_ccb_alloc(a)
      call == [AvctNoCall EXCEPT !.fn = "AVCT_CreateConn", !.cc = p_cc,
                                 !.peer_addr = peer_addr, !.p_ccb = p_ccb]
      a1 == [a EXCEPT !.ret = call]
  IN IF p_ccb = AvctNull
       THEN [a1 EXCEPT !.ret.result = AVCT_NO_RESOURCES]
     ELSE
       LET a2 == [AvctCcbSet(a1, p_ccb, [AvctZeroCcb EXCEPT !.allocated = TRUE,
                                                          !.cc = p_cc])
                    EXCEPT !.ret.handle = avct_ccb_to_idx(p_ccb)]
           found == avct_lcb_by_bd(a2, peer_addr)
           p_lcb == IF found = AvctNull THEN avct_lcb_alloc(a2) ELSE found
       IN IF p_cc.role # AVCT_INT THEN a2
          ELSE IF p_lcb = AvctNull
            THEN [avct_ccb_dealloc(a2, p_ccb) EXCEPT !.ret.result = AVCT_NO_RESOURCES]
          ELSE IF found # AvctNull /\ avct_lcb_has_pid(a2, p_lcb, p_cc.pid)
            THEN [a2 EXCEPT !.ret.result = AVCT_PID_IN_USE]
          ELSE avct_lcb_bind(
                 [a2 EXCEPT !.ccb[p_ccb].p_lcb = p_lcb,
                            !.lcb[p_lcb] = IF found = AvctNull
                                             THEN [AvctZeroLcb EXCEPT
                                                     !.allocated = TRUE,
                                                     !.peer_addr = peer_addr]
                                             ELSE @],
                 p_lcb, p_ccb, ok)

\* AVCT_CreateConn: a block is allocated; an initiator is bound to the link
\* of the peer, which is allocated when there is none, unless there is no
\* link left or the PID is in use on the link: then the block is released
AVCT_CreateConn(a, p_cc, peer_addr, ok) ==
  LET p_ccb == avct_ccb_alloc(a)
      call == [AvctNoCall EXCEPT !.fn = "AVCT_CreateConn", !.cc = p_cc,
                                 !.peer_addr = peer_addr, !.p_ccb = p_ccb]
      a1 == [a EXCEPT !.ret = call]
  IN IF p_ccb = AvctNull
       THEN [a1 EXCEPT !.ret.result = AVCT_NO_RESOURCES]
     ELSE
       LET a2 == [AvctCcbSet(a1, p_ccb, [AvctZeroCcb EXCEPT !.allocated = TRUE,
                                                          !.cc = p_cc])
                    EXCEPT !.ret.handle = avct_ccb_to_idx(p_ccb)]
           found == avct_lcb_by_bd(a2, peer_addr)
           p_lcb == IF found = AvctNull THEN avct_lcb_alloc(a2) ELSE found
       IN IF p_cc.role # AVCT_INT THEN a2
          ELSE IF p_lcb = AvctNull
            THEN [avct_ccb_dealloc(a2, p_ccb) EXCEPT !.ret.result = AVCT_NO_RESOURCES]
          ELSE IF found # AvctNull /\ avct_lcb_has_pid(a2, p_lcb, p_cc.pid)
            THEN [avct_ccb_dealloc(a2, p_ccb) EXCEPT !.ret.result = AVCT_PID_IN_USE]
          ELSE avct_lcb_bind(
                 [a2 EXCEPT !.ccb[p_ccb].p_lcb = p_lcb,
                            !.lcb[p_lcb] = IF found = AvctNull
                                             THEN [AvctZeroLcb EXCEPT
                                                     !.allocated = TRUE,
                                                     !.peer_addr = peer_addr]
                                             ELSE @],
                 p_lcb, p_ccb, ok)

\* AVCT_RemoveConn: a connection not bound is released at once, a bound one
\* is left to its link
AVCT_RemoveConn(a, handle) ==
  LET p_ccb == avct_ccb_by_idx(a, handle)
      a1 == [a EXCEPT !.ret = [AvctNoCall EXCEPT !.fn = "AVCT_RemoveConn",
                                                 !.handle = handle,
                                                 !.p_ccb = p_ccb]]
  IN IF p_ccb = AvctNull THEN [a1 EXCEPT !.ret.result = AVCT_BAD_HANDLE]
     ELSE IF a.ccb[p_ccb].p_lcb = AvctNull THEN avct_ccb_dealloc(a1, p_ccb)
     ELSE avct_lcb_unbind(a1, a.ccb[p_ccb].p_lcb, p_ccb)

(***************************************************************************)
(* The application creates and removes connections; L2CAP confirms the     *)
(* channel of a link or reports it closed.                                 *)
(***************************************************************************)
AvctCreate ==
  /\ \E p_cc \in AvctCcs, peer_addr \in AvctAddrs, ok \in BOOLEAN :
       avct' = AVCT_CreateConn(avct, p_cc, peer_addr, ok)
  /\ UNCHANGED <<avdtVars, smp>>

AvctRemove ==
  /\ \E handle \in 0..AVCT_NUM_CONN : avct' = AVCT_RemoveConn(avct, handle)
  /\ UNCHANGED <<avdtVars, smp>>

\* avct_l2c_connect_cfm_cback and avct_l2c_config_cfm_cback: the channel of
\* the link is open
AvctChannelOpen ==
  /\ \E p_lcb \in DOMAIN avct.lcb :
       /\ avct.lcb[p_lcb].ch_state = "AVCT_CH_CONN"
       /\ avct' = [avct EXCEPT !.lcb[p_lcb].ch_state = "AVCT_CH_OPEN",
                               !.ret = [AvctNoCall EXCEPT !.fn = "avct_l2c_connect_cfm_cback"]]
  /\ UNCHANGED <<avdtVars, smp>>

\* avct_l2c_disconnect_ind_cback and avct_l2c_disconnect_cfm_cback: the
\* channel of the link is closed
AvctChannelClosed ==
  /\ \E p_lcb \in DOMAIN avct.lcb :
       /\ avct.lcb[p_lcb].ch_state # "AVCT_CH_IDLE"
       /\ avct' = avct_lcb_close_cfm(
                    [avct EXCEPT !.ret = [AvctNoCall EXCEPT
                                            !.fn = "avct_l2c_disconnect_cfm_cback"]],
                    p_lcb)
  /\ UNCHANGED <<avdtVars, smp>>

InitAvct ==
  /\ ccb = InitCcb(MinPeerMtu, 0)
  /\ peer_ccb = InitCcb(MinPeerMtu, 0)
  /\ wire = <<>>
  /\ orig = NULL
  /\ rxd = <<>>
  /\ ind = NoInd
  /\ run = NoRun
  /\ prs = NoPrs
  /\ xmit = NoSent
  /\ smp = SmpIdle(HCI_ROLE_MASTER, FALSE, "model")
  /\ avct = AvctIdle

NextAvct == AvctCreate \/ AvctRemove \/ AvctChannelOpen \/ AvctChannelClosed

SpecAvct == InitAvct /\ [][NextAvct]_vars

\* the bind events that the last call has sent
AvctBinds(r) ==
  {i \in 1..Len(r.evts) : r.evts[i].evt = "AVCT_LCB_UL_BIND_EVT"}

\* the outcome of AVCT_CreateConn, from the blocks before the call to the
\* blocks after it
CreateOutcome(before, a) ==
  LET r == a.ret
  IN r.fn = "AVCT_CreateConn" =>
       /\ r.result \in {AVCT_SUCCESS, AVCT_NO_RESOURCES, AVCT_PID_IN_USE}
       /\ r.result = AVCT_SUCCESS =>
            /\ r.p_ccb # AvctNull
            /\ ~before.ccb[r.p_ccb].allocated
            /\ r.handle = r.p_ccb
            /\ r.cc.role = AVCT_INT =>
                 /\ Cardinality(AvctBinds(r)) = 1
                 /\ Len(r.evts) = 1
                 /\ r.evts[1].p_ccb = r.p_ccb
                 /\ LET p_lcb == r.evts[1].p_lcb
                    IN /\ a.lcb[p_lcb].allocated => a.lcb[p_lcb].peer_addr = r.peer_addr
                       /\ before.lcb[p_lcb].allocated =>
                            before.lcb[p_lcb].peer_addr = r.peer_addr
                       /\ \A i \in AvctBound(before, p_lcb) :
                            before.ccb[i].cc.pid # r.cc.pid
                       /\ \/ a.ccb[r.p_ccb] = [allocated |-> TRUE, cc |-> r.cc,
                                               p_lcb |-> p_lcb]
                          \/ ~a.ccb[r.p_ccb].allocated
            /\ r.cc.role # AVCT_INT =>
                 /\ r.evts = <<>>
                 /\ a.ccb[r.p_ccb] = [allocated |-> TRUE, cc |-> r.cc,
                                      p_lcb |-> AvctNull]
       /\ r.result # AVCT_SUCCESS =>
            /\ r.evts = <<>>
            /\ a.ccb = before.ccb
            /\ a.lcb = before.lcb

\* C40: AVCT_CreateConn returns AVCT_SUCCESS only if a block was allocated
\* and, for an initiator, bound to a link of the peer on which no other
\* connection has the PID, with one bind event sent; when it returns
\* AVCT_NO_RESOURCES or AVCT_PID_IN_USE the block it allocated is released
\* and no bind event was sent, so no block stays allocated for a creation
\* that failed
C40_CreateOutcome == [][CreateOutcome(avct, avct')]_vars

\* a creation was refused for its PID: the link of the peer has a
\* connection with the PID, and the block taken is free again
C40_Witness ==
  /\ avct.ret.fn = "AVCT_CreateConn"
  /\ avct.ret.result = AVCT_PID_IN_USE
  /\ avct.ret.p_ccb # AvctNull
  /\ ~avct.ccb[avct.ret.p_ccb].allocated
  /\ \E i \in DOMAIN avct.ccb :
       /\ avct.ccb[i].allocated
       /\ avct.ccb[i].cc.pid = avct.ret.cc.pid
       /\ avct.ccb[i].p_lcb = avct_lcb_by_bd(avct, avct.ret.peer_addr)

\* a creation was refused for want of a link, with a block to spare
C40_WitnessNoLink ==
  /\ avct.ret.fn = "AVCT_CreateConn"
  /\ avct.ret.result = AVCT_NO_RESOURCES
  /\ avct.ret.p_ccb # AvctNull
  /\ ~avct.ccb[avct.ret.p_ccb].allocated
  /\ \A i \in DOMAIN avct.lcb : avct.lcb[i].allocated

\* an initiator was bound to the link of its peer
C40_WitnessBound ==
  /\ avct.ret.fn = "AVCT_CreateConn"
  /\ avct.ret.result = AVCT_SUCCESS
  /\ avct.ret.cc.role = AVCT_INT
  /\ avct.ccb[avct.ret.p_ccb].allocated
  /\ Cardinality(AvctBound(avct, avct.ccb[avct.ret.p_ccb].p_lcb)) = 2

====
